---- MODULE Spec2Model ----
(***************************************************************************)
(* Binary telemetry codec (modules/data_encoding), chunked datagram        *)
(* transport and its client socket (modules/network/udp) and stream        *)
(* receive (modules/network/tcp) of packaged-common.                       *)
(*                                                                         *)
(* Python values are modelled as follows.                                  *)
(*   bytes            a sequence of integers 0..255                        *)
(*   base64 text      a sequence of character codes: 0..63 is the index of *)
(*                    a character of the base64 alphabet, BASE64_PAD is    *)
(*                    '=', NON_ALPHABET is any other character             *)
(*   float            the IEEE-754 binary64 fields sign, exponent and the  *)
(*                    52 fraction bits split as hi (20), mid (16), lo (16) *)
(*   int              two limbs: the value is hi * 65536 + lo with lo in   *)
(*                    0..65535 and hi any integer (Python ints are         *)
(*                    unbounded)                                           *)
(*   None / optional  None is <<>>, a present value x is <<x>>             *)
(***************************************************************************)
EXTENDS Integers, Sequences, FiniteSets, TLC

VARIABLES
    w_pc,        \* worker identity probe: "start", "looked", "valued", "done"
    w_n,         \* integer handed to WorkerEnum(n)
    w_tag,       \* member whose .value is read
    w_from_int,  \* outcome of WorkerEnum(w_n)
    w_value,     \* w_tag.value, optional
    w_back,      \* outcome of WorkerEnum(w_tag.value)
    c_pc,        \* codec: "start", "encoded", "decoded"
    c_kind,      \* "position" or "metadata"
    c_worker,    \* worker_id argument of the encoder
    c_position,  \* global_position argument
    c_count,     \* number_of_messages argument
    c_packed,    \* struct.pack output inside the encoder, optional
    c_encoded,   \* what the encoder returned
    c_wire,      \* the encoded_str argument handed to the decoder
    c_decoded,   \* what the decoder returned or raised
    s_pc,        \* UdpSocket.send_to: "loop" or "returned"
    s_data,      \* data argument
    s_chunk_size,\* chunk_size argument
    s_data_sent, \* data_sent
    s_result,    \* return value of send_to, optional
    s_log,       \* chunks handed to sendto that were sent, in order
    net,         \* datagrams sent to the receiver's port and not yet received
    n_foreign,   \* datagrams sent to that port by another host so far
    n_lost,      \* datagrams the network dropped so far
    r_pc,        \* UdpSocket.recv: "loop" or "returned"
    r_buf_size,  \* buf_size argument
    r_data,      \* data
    r_addr,      \* addr, optional
    r_data_size, \* data_size
    r_log,       \* datagrams recvfrom returned, in order
    r_result,    \* return value of recv
    cl_pc,       \* UdpClientSocket: "ready", or "send" while send runs send_to
    cl_server_address, \* __server_address, fixed by create
    cl_calls,    \* send calls made so far
    cl_send_result,    \* return value of the last send, optional
    cl_recv,     \* how the last recv call on the client ended
    t_pc,        \* TcpSocket.recv: "ready", "loop", "returned" or "raised"
    t_stream,    \* the bytes the peer sends before it closes the connection
    t_pos,       \* bytes of the stream read from the socket so far
    t_calls,     \* recv calls made so far
    t_start,     \* t_pos when the current recv call was made
    t_buf_size,  \* buf_size argument
    t_message,   \* message
    t_bytes_recd,\* bytes_recd
    t_reads,     \* lengths of the chunks socket.recv returned in this call
    t_result,    \* return value of recv, optional
    t_outcomes,  \* how each finished recv call ended, in order
    t_closed,    \* the socket of the TcpSocket has been closed
    t_closed_at, \* recv calls made when it was closed, optional
    t_close_result,    \* return value of the last close, optional
    t_send,      \* the last send call: data, bytes moved, return value, optional
    f_handles,   \* every socket ever opened: whether it is open, who opened it
    f_wrappers,  \* every wrapper constructed: its class and the socket it holds
    f_outside,   \* sockets that code outside the wrappers holds a reference to
    f_results,   \* how each create call ended, in order
    h_pc,        \* where the caller of the HITL object is inside start or shutdown
    h_position_emulator,   \* position_emulator is not None
    h_camera_emulator,     \* camera_emulator is not None
    h_stop_event,\* _stop_event: optional index into h_events
    h_events,    \* every Event created: whether it is set
    h_threads,   \* _threads: indexes into h_thr
    h_thr,       \* every thread started: its target, its position, its history
    h_join,      \* position of the for loop of shutdown in _threads
    h_calls      \* start and shutdown calls made so far

workerVars == <<w_pc, w_n, w_tag, w_from_int, w_value, w_back>>
codecVars == <<c_pc, c_kind, c_worker, c_position, c_count, c_packed, c_encoded,
               c_wire, c_decoded>>
sendVars == <<s_pc, s_data, s_chunk_size, s_data_sent, s_result, s_log>>
netVars == <<net, n_foreign, n_lost>>
recvVars == <<r_pc, r_buf_size, r_data, r_addr, r_data_size, r_log, r_result>>
udpVars == <<sendVars, netVars, recvVars>>
clientVars == <<cl_pc, cl_server_address, cl_calls, cl_send_result, cl_recv>>
tcpHandleVars == <<t_closed, t_closed_at, t_close_result, t_send>>
tcpVars == <<t_pc, t_stream, t_pos, t_calls, t_start, t_buf_size, t_message,
             t_bytes_recd, t_reads, t_result, t_outcomes, tcpHandleVars>>
factoryVars == <<f_handles, f_wrappers, f_outside, f_results>>
hitlVars == <<h_pc, h_position_emulator, h_camera_emulator, h_stop_event, h_events,
              h_threads, h_thr, h_join, h_calls>>
vars == <<workerVars, codecVars, udpVars, clientVars, tcpVars, factoryVars, hitlVars>>

None == <<>>
Some(x) == <<x>>

(***************************************************************************)
(* worker_enum.py                                                          *)
(***************************************************************************)
WorkerEnum_DuplicateValue ==
    [ CLUSTER_ESTIMATION_WORKER |-> 1,
      COMMUNICATIONS_WORKER |-> 2,
      DATA_MERGE_WORKER |-> 3,
      DETECT_TARGET_WORKER |-> 4,
      FLIGHT_INTERFACE_WORKER |-> 5,
      GEOLOCATION_WORKER |-> 6,
      VIDEO_INPUT_WORKER |-> 6 ]

WorkerEnum ==
    [ CLUSTER_ESTIMATION_WORKER |-> 1,
      COMMUNICATIONS_WORKER |-> 2,
      DATA_MERGE_WORKER |-> 3,
      DETECT_TARGET_WORKER |-> 4,
      FLIGHT_INTERFACE_WORKER |-> 5,
      GEOLOCATION_WORKER |-> 6,
      VIDEO_INPUT_WORKER |-> 7 ]

WorkerNames == DOMAIN WorkerEnum

\* member.value
WorkerEnumValue(name) == WorkerEnum[name]

\* WorkerEnum(n): the member with value n, or ValueError
WorkerEnumFromValue(n) ==
    IF \E t \in WorkerNames : WorkerEnum[t] = n
    THEN [raised |-> FALSE,
          member |-> Some(CHOOSE t \in WorkerNames : WorkerEnum[t] = n)]
    ELSE [raised |-> TRUE, member |-> None]

(***************************************************************************)
(* Arguments                                                               *)
(***************************************************************************)
\* a worker_id argument: a WorkerEnum member or a bare int
Member(name) == [type |-> "WorkerEnum", name |-> name, int |-> 0]
BareInt(n) == [type |-> "int", name |-> "", int |-> n]

Double(s, e, h, m, l) == [sign |-> s, exponent |-> e, hi |-> h, mid |-> m, lo |-> l]
PosZero == Double(0, 0, 0, 0, 0)
NegZero == Double(1, 0, 0, 0, 0)
NegOneAndHalf == Double(1, 1023, 524288, 0, 0)
Pi == Double(0, 1024, 598523, 21572, 11544)
MinSubnormal == Double(0, 0, 0, 0, 1)
MaxFinite == Double(0, 2046, 1048575, 65535, 65535)
PosInfinity == Double(0, 2047, 0, 0, 0)
NegInfinity == Double(1, 2047, 0, 0, 0)
QuietNaN == Double(0, 2047, 524288, 0, 0)

isfinite(d) == d.exponent # 2047

PyInt(h, l) == [hi |-> h, lo |-> l]
InInt32(n) == n.hi \in -32768..32767

(***************************************************************************)
(* struct: standard sizes, no alignment ("="), little-endian host          *)
(***************************************************************************)
DATA_FORMAT_POSITION == <<"B", "d", "d", "d">>
DATA_FORMAT_METADATA == <<"B", "i">>

FieldSize(code) == CASE code = "B" -> 1 [] code = "i" -> 4 [] code = "d" -> 8

RECURSIVE calcsize(_)
calcsize(fmt) ==
    IF fmt = <<>> THEN 0 ELSE FieldSize(Head(fmt)) + calcsize(Tail(fmt))

\* 'B': an int in 0..255, else struct.error
pack_B(v) ==
    IF v \in 0..255 THEN [error |-> FALSE, bytes |-> <<v>>]
    ELSE [error |-> TRUE, bytes |-> <<>>]

unpack_B(b) == b[1]

\* 'i' with wrap-around instead of the range check
pack_i_Wrapping(n) ==
    LET h == n.hi % 65536
    IN  [error |-> FALSE,
         bytes |-> <<n.lo % 256, n.lo \div 256, h % 256, h \div 256>>]

\* 'i': a signed 32-bit int, two's complement, else struct.error
pack_i(n) ==
    IF ~InInt32(n) THEN [error |-> TRUE, bytes |-> <<>>]
    ELSE LET h == n.hi % 65536
         IN  [error |-> FALSE,
              bytes |-> <<n.lo % 256, n.lo \div 256, h % 256, h \div 256>>]

\* 'i' read as unsigned
unpack_i_Unsigned(b) == PyInt(b[4] * 256 + b[3], b[2] * 256 + b[1])

unpack_i(b) ==
    LET u == b[4] * 256 + b[3]
    IN  PyInt(IF u >= 32768 THEN u - 65536 ELSE u, b[2] * 256 + b[1])

\* 'd': the binary64 image of a float; every float packs, NaN and infinities too
pack_d(d) ==
    [error |-> FALSE,
     bytes |-> << d.lo % 256, d.lo \div 256, d.mid % 256, d.mid \div 256,
                  d.hi % 256, (d.hi \div 256) % 256,
                  (d.exponent % 16) * 16 + d.hi \div 65536,
                  d.sign * 128 + d.exponent \div 16 >>]

unpack_d(b) ==
    Double(b[8] \div 128, (b[8] % 128) * 16 + b[7] \div 16,
           (b[7] % 16) * 65536 + b[6] * 256 + b[5],
           b[4] * 256 + b[3], b[2] * 256 + b[1])

pack_field(code, v) ==
    CASE code = "B" -> pack_B(v) [] code = "i" -> pack_i(v) [] code = "d" -> pack_d(v)

unpack_field(code, b) ==
    CASE code = "B" -> unpack_B(b) [] code = "i" -> unpack_i(b) [] code = "d" -> unpack_d(b)

\* struct.pack(fmt, *args): struct.error when a field does not fit its code
RECURSIVE struct_pack(_, _)
struct_pack(fmt, args) ==
    IF fmt = <<>> THEN [error |-> FALSE, bytes |-> <<>>]
    ELSE LET first == pack_field(Head(fmt), Head(args))
             rest == struct_pack(Tail(fmt), Tail(args))
         IN  IF first.error \/ rest.error THEN [error |-> TRUE, bytes |-> <<>>]
             ELSE [error |-> FALSE, bytes |-> first.bytes \o rest.bytes]

RECURSIVE unpack_fields(_, _)
unpack_fields(fmt, b) ==
    IF fmt = <<>> THEN <<>>
    ELSE LET n == FieldSize(Head(fmt))
         IN  <<unpack_field(Head(fmt), SubSeq(b, 1, n))>>
                 \o unpack_fields(Tail(fmt), SubSeq(b, n + 1, Len(b)))

\* struct.unpack(fmt, buffer): struct.error unless the buffer has calcsize(fmt) bytes
struct_unpack(fmt, b) ==
    IF Len(b) # calcsize(fmt) THEN [error |-> TRUE, values |-> <<>>]
    ELSE [error |-> FALSE, values |-> unpack_fields(fmt, b)]

(***************************************************************************)
(* base64: b64encode is binascii.b2a_base64 without the newline, b64decode *)
(* is binascii.a2b_base64 in its non-strict mode (validate=False)          *)
(***************************************************************************)
BASE64_PAD == 64
NON_ALPHABET == 65

RECURSIVE b64encode(_)
b64encode(bin) ==
    IF Len(bin) = 0 THEN <<>>
    ELSE IF Len(bin) = 1
    THEN <<bin[1] \div 4, (bin[1] % 4) * 16, BASE64_PAD, BASE64_PAD>>
    ELSE IF Len(bin) = 2
    THEN <<bin[1] \div 4, (bin[1] % 4) * 16 + bin[2] \div 16,
           (bin[2] % 16) * 4, BASE64_PAD>>
    ELSE <<bin[1] \div 4, (bin[1] % 4) * 16 + bin[2] \div 16,
           (bin[2] % 16) * 4 + bin[3] \div 64, bin[3] % 64>>
             \o b64encode(SubSeq(bin, 4, Len(bin)))

\* the scan of a2b_base64: characters outside the alphabet are skipped, a pad
\* that completes a quad ends the scan, and data left in an open quad at the end
\* of the text is binascii.Error
RECURSIVE a2b_scan(_, _, _, _, _, _)
a2b_scan(ascii, i, quad_pos, leftchar, pads, bin) ==
    IF i > Len(ascii)
    THEN IF quad_pos # 0 THEN [raised |-> TRUE, bytes |-> <<>>]
         ELSE [raised |-> FALSE, bytes |-> bin]
    ELSE LET ch == ascii[i]
         IN  IF ch = BASE64_PAD
             THEN IF quad_pos >= 2 /\ quad_pos + pads + 1 >= 4
                  THEN [raised |-> FALSE, bytes |-> bin]
                  ELSE a2b_scan(ascii, i + 1, quad_pos, leftchar,
                                IF quad_pos >= 2 THEN pads + 1 ELSE pads, bin)
             ELSE IF ch >= 64
             THEN a2b_scan(ascii, i + 1, quad_pos, leftchar, pads, bin)
             ELSE CASE quad_pos = 0 ->
                         a2b_scan(ascii, i + 1, 1, ch, 0, bin)
                    [] quad_pos = 1 ->
                         a2b_scan(ascii, i + 1, 2, ch % 16, 0,
                                  Append(bin, leftchar * 4 + ch \div 16))
                    [] quad_pos = 2 ->
                         a2b_scan(ascii, i + 1, 3, ch % 4, 0,
                                  Append(bin, leftchar * 16 + ch \div 4))
                    [] quad_pos = 3 ->
                         a2b_scan(ascii, i + 1, 0, 0, 0,
                                  Append(bin, leftchar * 64 + ch))

b64decode(ascii) == a2b_scan(ascii, 1, 0, 0, 0, <<>>)

(***************************************************************************)
(* position_global.py                                                      *)
(***************************************************************************)
\* PositionGlobal.create: always succeeds, no range or finiteness validation
PositionGlobal_create(latitude, longitude, altitude) ==
    [success |-> TRUE,
     position |-> [latitude |-> latitude, longitude |-> longitude,
                   altitude |-> altitude]]

(***************************************************************************)
(* Outcomes of the codec functions                                         *)
(***************************************************************************)
EncodeReturn(success, encoded_str) ==
    [raised |-> FALSE, exc |-> "", success |-> success, encoded_str |-> encoded_str]
DecodeReturn(success, worker_id, value) ==
    [raised |-> FALSE, exc |-> "", success |-> success, worker_id |-> worker_id,
     value |-> value]
DecodeRaise(exc) ==
    [raised |-> TRUE, exc |-> exc, success |-> FALSE, worker_id |-> None,
     value |-> None]

\* worker_id.value: AttributeError on anything that is not an enum member
ValueAttribute(worker_id) ==
    IF worker_id.type = "WorkerEnum"
    THEN [error |-> FALSE, value |-> WorkerEnumValue(worker_id.name)]
    ELSE [error |-> TRUE, value |-> 0]

(***************************************************************************)
(* message_encoding_decoding.py                                            *)
(***************************************************************************)
\* the packing step of encode_position_global: struct.pack of the four fields
PackPosition(worker_id, global_position) ==
    LET v == ValueAttribute(worker_id)
    IN  IF v.error THEN [error |-> TRUE, bytes |-> <<>>]
        ELSE struct_pack(DATA_FORMAT_POSITION,
                         <<v.value, global_position.latitude,
                           global_position.longitude, global_position.altitude>>)

\* encode_position_global that takes any int 1..7 for a worker id
encode_position_global_AnyInt(worker_id, global_position) ==
    LET packed == struct_pack(DATA_FORMAT_POSITION,
                     <<IF worker_id.type = "WorkerEnum"
                       THEN WorkerEnumValue(worker_id.name) ELSE worker_id.int,
                       global_position.latitude, global_position.longitude,
                       global_position.altitude>>)
    IN  IF packed.error THEN EncodeReturn(FALSE, None)
        ELSE EncodeReturn(TRUE, Some(b64encode(packed.bytes)))

\* encode_position_global that refuses NaN and infinities
encode_position_global_FiniteOnly(worker_id, global_position) ==
    IF worker_id.type # "WorkerEnum" THEN EncodeReturn(FALSE, None)
    ELSE IF ~(isfinite(global_position.latitude) /\ isfinite(global_position.longitude)
              /\ isfinite(global_position.altitude))
    THEN EncodeReturn(FALSE, None)
    ELSE LET packed == PackPosition(worker_id, global_position)
         IN  IF packed.error THEN EncodeReturn(FALSE, None)
             ELSE EncodeReturn(TRUE, Some(b64encode(packed.bytes)))

encode_position_global(worker_id, global_position) ==
    IF worker_id.type # "WorkerEnum" THEN EncodeReturn(FALSE, None)
    ELSE LET packed == PackPosition(worker_id, global_position)
         IN  IF packed.error THEN EncodeReturn(FALSE, None)
             ELSE EncodeReturn(TRUE, Some(b64encode(packed.bytes)))

\* decode_bytes_to_position_global returning longitude before latitude
decode_bytes_to_position_global_Swapped(encoded_str) ==
    LET decoded == b64decode(encoded_str)
    IN  IF decoded.raised THEN DecodeRaise("binascii.Error")
        ELSE IF Len(decoded.bytes) # calcsize(DATA_FORMAT_POSITION)
        THEN DecodeReturn(FALSE, None, None)
        ELSE LET unpacked == struct_unpack(DATA_FORMAT_POSITION, decoded.bytes)
                 worker_id == WorkerEnumFromValue(unpacked.values[1])
                 created == PositionGlobal_create(unpacked.values[3],
                                unpacked.values[2], unpacked.values[4])
             IN  IF worker_id.raised THEN DecodeRaise("ValueError")
                 ELSE DecodeReturn(created.success, worker_id.member,
                                   Some(created.position))

\* decode_bytes_to_position_global reading the record from the front of a
\* buffer that is at least as long as the layout
decode_bytes_to_position_global_Prefix(encoded_str) ==
    LET decoded == b64decode(encoded_str)
    IN  IF decoded.raised THEN DecodeRaise("binascii.Error")
        ELSE IF Len(decoded.bytes) < calcsize(DATA_FORMAT_POSITION)
        THEN DecodeReturn(FALSE, None, None)
        ELSE LET unpacked == struct_unpack(DATA_FORMAT_POSITION,
                                 SubSeq(decoded.bytes, 1, calcsize(DATA_FORMAT_POSITION)))
                 worker_id == WorkerEnumFromValue(unpacked.values[1])
                 created == PositionGlobal_create(unpacked.values[2],
                                unpacked.values[3], unpacked.values[4])
             IN  IF worker_id.raised THEN DecodeRaise("ValueError")
                 ELSE DecodeReturn(created.success, worker_id.member,
                                   Some(created.position))

\* binascii.Error and ValueError are not struct.error: they leave the function
decode_bytes_to_position_global(encoded_str) ==
    LET decoded == b64decode(encoded_str)
    IN  IF decoded.raised THEN DecodeRaise("binascii.Error")
        ELSE IF Len(decoded.bytes) # calcsize(DATA_FORMAT_POSITION)
        THEN DecodeReturn(FALSE, None, None)
        ELSE LET unpacked == struct_unpack(DATA_FORMAT_POSITION, decoded.bytes)
             IN  IF unpacked.error THEN DecodeReturn(FALSE, None, None)
                 ELSE LET worker_id == WorkerEnumFromValue(unpacked.values[1])
                          created == PositionGlobal_create(unpacked.values[2],
                                         unpacked.values[3], unpacked.values[4])
                      IN  IF worker_id.raised THEN DecodeRaise("ValueError")
                          ELSE DecodeReturn(created.success, worker_id.member,
                                            Some(created.position))

(***************************************************************************)
(* metadata_encoding_decoding.py                                           *)
(***************************************************************************)
PackMetadata(worker_id, number_of_messages) ==
    LET v == ValueAttribute(worker_id)
    IN  IF v.error THEN [error |-> TRUE, bytes |-> <<>>]
        ELSE struct_pack(DATA_FORMAT_METADATA, <<v.value, number_of_messages>>)

encode_metadata(worker_id, number_of_messages) ==
    IF worker_id.type # "WorkerEnum" THEN EncodeReturn(FALSE, None)
    ELSE LET packed == PackMetadata(worker_id, number_of_messages)
         IN  IF packed.error THEN EncodeReturn(FALSE, None)
             ELSE EncodeReturn(TRUE, Some(b64encode(packed.bytes)))

decode_metadata(encoded_str) ==
    LET decoded == b64decode(encoded_str)
    IN  IF decoded.raised THEN DecodeRaise("binascii.Error")
        ELSE IF Len(decoded.bytes) # calcsize(DATA_FORMAT_METADATA)
        THEN DecodeReturn(FALSE, None, None)
        ELSE LET unpacked == struct_unpack(DATA_FORMAT_METADATA, decoded.bytes)
             IN  IF unpacked.error THEN DecodeReturn(FALSE, None, None)
                 ELSE LET worker_id == WorkerEnumFromValue(unpacked.values[1])
                      IN  IF worker_id.raised THEN DecodeRaise("ValueError")
                          ELSE DecodeReturn(TRUE, worker_id.member,
                                            Some(unpacked.values[2]))

(***************************************************************************)
(* Bounds and input sets                                                   *)
(***************************************************************************)
MaxProbe == 300     \* WorkerEnum(n) is probed for n in -MaxProbe..MaxProbe
MaxCut == 3         \* raw bytes cut from the end of a record
MaxExtra == 3       \* raw bytes added to the end of a record
MaxStrip == 2       \* characters cut from the end of the armored text

ProbeInts == (0 - MaxProbe)..MaxProbe
WorkerArgs == {Member(t) : t \in WorkerNames} \cup {BareInt(n) : n \in {0, 3, 8}}
Doubles == {PosZero, NegZero, NegOneAndHalf, Pi, MinSubnormal, MaxFinite,
            PosInfinity, NegInfinity, QuietNaN}
Positions == [latitude : Doubles, longitude : Doubles, altitude : Doubles]
Counts == {PyInt(0, 0), PyInt(0, 1), PyInt(-1, 65535), PyInt(1, 4464),
           PyInt(32767, 65535), PyInt(-32768, 0), PyInt(32768, 0),
           PyInt(-32769, 65535), PyInt(65536, 5), PyInt(-65536, 0)}
BadTagBytes == {0, 8, 255}

Zeros(k) == [i \in 1..k |-> 0]
InsertAt(seq, i, x) == SubSeq(seq, 1, i - 1) \o <<x>> \o SubSeq(seq, i, Len(seq))

\* buffers a caller may hand to a decoder after encoded_str was sent: the text
\* itself, the armor of a record with another first byte or another length, and
\* the text with a foreign character, with characters missing, or with a pad added
RawVariants(packed) ==
    {<<b>> \o Tail(packed) : b \in BadTagBytes}
        \cup {SubSeq(packed, 1, Len(packed) - k) : k \in 1..MaxCut}
        \cup {<<>>}
        \cup {packed \o Zeros(k) : k \in 1..MaxExtra}
        \cup {<<b>> \o Tail(packed) \o Zeros(1) : b \in BadTagBytes}

TextVariants(encoded_str) ==
    {InsertAt(encoded_str, i, NON_ALPHABET) : i \in {1, 3, Len(encoded_str) + 1}}
        \cup {SubSeq(encoded_str, 1, Len(encoded_str) - k) : k \in 1..MaxStrip}
        \cup {Append(encoded_str, BASE64_PAD)}

WireInputs(packed, encoded_str) ==
    {encoded_str} \cup TextVariants(encoded_str)
        \cup (IF packed = None THEN {}
              ELSE {b64encode(raw) : raw \in RawVariants(packed[1])})

(***************************************************************************)
(* Worker identity: WorkerEnum(n), member.value, WorkerEnum(member.value)  *)
(***************************************************************************)
WorkerIdle ==
    /\ w_pc = "idle" /\ w_n = 0 /\ w_tag = "CLUSTER_ESTIMATION_WORKER"
    /\ w_from_int = WorkerEnumFromValue(0) /\ w_value = None
    /\ w_back = WorkerEnumFromValue(0)

InitWorker ==
    /\ w_pc = "start"
    /\ w_n \in ProbeInts
    /\ w_tag \in WorkerNames
    /\ w_from_int = WorkerEnumFromValue(0)
    /\ w_value = None
    /\ w_back = WorkerEnumFromValue(0)

LookupInt ==
    /\ w_pc = "start"
    /\ w_from_int' = WorkerEnumFromValue(w_n)
    /\ w_pc' = "looked"
    /\ UNCHANGED <<w_n, w_tag, w_value, w_back, codecVars, udpVars, clientVars, tcpVars,
                   factoryVars, hitlVars>>

ValueOfTag ==
    /\ w_pc = "looked"
    /\ w_value' = Some(WorkerEnumValue(w_tag))
    /\ w_pc' = "valued"
    /\ UNCHANGED <<w_n, w_tag, w_from_int, w_back, codecVars, udpVars, clientVars, tcpVars,
                   factoryVars, hitlVars>>

LookupValue ==
    /\ w_pc = "valued"
    /\ w_back' = WorkerEnumFromValue(w_value[1])
    /\ w_pc' = "done"
    /\ UNCHANGED <<w_n, w_tag, w_from_int, w_value, codecVars, udpVars, clientVars, tcpVars,
                   factoryVars, hitlVars>>

(***************************************************************************)
(* Codec: one encode of the drawn arguments, then one decode               *)
(***************************************************************************)
CodecIdle ==
    /\ c_pc = "idle" /\ c_kind = "position" /\ c_worker = BareInt(0)
    /\ c_position = [latitude |-> PosZero, longitude |-> PosZero, altitude |-> PosZero]
    /\ c_count = PyInt(0, 0) /\ c_packed = None
    /\ c_encoded = EncodeReturn(FALSE, None) /\ c_wire = <<>>
    /\ c_decoded = DecodeReturn(FALSE, None, None)

InitCodec ==
    /\ c_pc = "start"
    /\ c_worker \in WorkerArgs
    /\ \/ /\ c_kind = "position"
          /\ c_position \in Positions
          /\ c_count = PyInt(0, 0)
       \/ /\ c_kind = "metadata"
          /\ c_position = [latitude |-> PosZero, longitude |-> PosZero,
                           altitude |-> PosZero]
          /\ c_count \in Counts
    /\ c_packed = None
    /\ c_encoded = EncodeReturn(FALSE, None)
    /\ c_wire = <<>>
    /\ c_decoded = DecodeReturn(FALSE, None, None)

EncodePositionGlobal ==
    /\ c_pc = "start" /\ c_kind = "position"
    /\ LET packed == PackPosition(c_worker, c_position)
       IN  c_packed' = IF packed.error THEN None ELSE Some(packed.bytes)
    /\ c_encoded' = encode_position_global(c_worker, c_position)
    /\ c_pc' = "encoded"
    /\ UNCHANGED <<c_kind, c_worker, c_position, c_count, c_wire, c_decoded, workerVars,
                   udpVars, clientVars, tcpVars,
                   factoryVars, hitlVars>>

DecodeBytesToPositionGlobal ==
    /\ c_pc = "encoded" /\ c_kind = "position" /\ c_encoded.success
    /\ \E encoded_str \in WireInputs(c_packed, c_encoded.encoded_str[1]) :
          /\ c_wire' = encoded_str
          /\ c_decoded' = decode_bytes_to_position_global(encoded_str)
    /\ c_pc' = "decoded"
    /\ UNCHANGED <<c_kind, c_worker, c_position, c_count, c_packed, c_encoded,
                   workerVars, udpVars, clientVars, tcpVars,
                   factoryVars, hitlVars>>

EncodeMetadata ==
    /\ c_pc = "start" /\ c_kind = "metadata"
    /\ LET packed == PackMetadata(c_worker, c_count)
       IN  c_packed' = IF packed.error THEN None ELSE Some(packed.bytes)
    /\ c_encoded' = encode_metadata(c_worker, c_count)
    /\ c_pc' = "encoded"
    /\ UNCHANGED <<c_kind, c_worker, c_position, c_count, c_wire, c_decoded, workerVars,
                   udpVars, clientVars, tcpVars,
                   factoryVars, hitlVars>>

DecodeMetadata ==
    /\ c_pc = "encoded" /\ c_kind = "metadata" /\ c_encoded.success
    /\ \E encoded_str \in WireInputs(c_packed, c_encoded.encoded_str[1]) :
          /\ c_wire' = encoded_str
          /\ c_decoded' = decode_metadata(encoded_str)
    /\ c_pc' = "decoded"
    /\ UNCHANGED <<c_kind, c_worker, c_position, c_count, c_packed, c_encoded,
                   workerVars, udpVars, clientVars, tcpVars,
                   factoryVars, hitlVars>>

(***************************************************************************)
(* network/udp/socket_wrapper.py: one send_to call on the sender's socket, *)
(* one recv call on the receiver's socket, and the network between them.   *)
(* A datagram is [payload, addr]: its bytes and the address it came from.  *)
(***************************************************************************)
MaxPayload == 4     \* longest data argument
MaxChunk == 3       \* largest chunk_size argument
MaxSends == 5       \* sendto calls followed within one send_to
MaxForeign == 1     \* datagrams another host sends to the receiver's port
MaxLost == 1        \* datagrams the network drops

\* the bytes 1, 2, ..., n: send_to and recv never look at a byte's value, so one
\* payload of each length stands for all of them, and distinct bytes show any
\* slice that is moved, repeated or dropped
Ramp(n) == [i \in 1..n |-> i]

Payloads == {Ramp(n) : n \in 0..MaxPayload}
ChunkSizes == -1..MaxChunk
BufSizes == 0..(MaxPayload + 1)
ForeignPayloads == {<<9>>, <<9, 9>>}
SenderAddr == "A"
ForeignAddr == "B"

Min(a, b) == IF a < b THEN a ELSE b
Max(a, b) == IF a > b THEN a ELSE b

\* data[start:stop] for start >= 0: a negative stop counts from the end, both
\* ends are clipped to the length
PySlice(data, start, stop) ==
    LET n == Len(data)
        hi == IF stop < 0 THEN Max(stop + n, 0) ELSE Min(stop, n)
        lo == Min(start, n)
    IN  IF hi <= lo THEN <<>> ELSE SubSeq(data, lo + 1, hi)

\* a chunk that is always cut from the start of data
NextChunk_FromStart(data, data_sent, chunk_size) == PySlice(data, 0, chunk_size)

\* the chunk of one iteration of send_to
NextChunk(data, data_sent, chunk_size) ==
    IF data_sent + chunk_size > Len(data)
    THEN PySlice(data, data_sent, Len(data))
    ELSE PySlice(data, data_sent, data_sent + chunk_size)

\* socket.recvfrom(bufsize): at most bufsize bytes of the datagram, the rest of
\* the datagram is discarded
recvfrom(datagram, bufsize) ==
    [packet |-> PySlice(datagram.payload, 0, bufsize), current_addr |-> datagram.addr]

\* accumulation that puts the newest packet first
Accumulate_Prepend(data, packet) == packet \o data

\* data += packet
Accumulate(data, packet) == data \o packet

UdpIdle ==
    /\ s_pc = "idle" /\ s_data = <<>> /\ s_chunk_size = 1 /\ s_data_sent = 0
    /\ s_result = None /\ s_log = <<>>
    /\ net = <<>> /\ n_foreign = 0 /\ n_lost = 0
    /\ r_pc = "idle" /\ r_buf_size = 0 /\ r_data = <<>> /\ r_addr = None
    /\ r_data_size = 0 /\ r_log = <<>> /\ r_result = [success |-> FALSE, data |-> None]

\* send_to(data, host, port, chunk_size) and recv(buf_size) have just been called
InitUdp ==
    /\ s_pc = "loop"
    /\ s_data \in Payloads
    /\ s_chunk_size \in ChunkSizes
    /\ s_data_sent = 0
    /\ s_result = None
    /\ s_log = <<>>
    /\ net = <<>> /\ n_foreign = 0 /\ n_lost = 0
    /\ r_pc = "loop"
    /\ r_buf_size \in BufSizes
    /\ r_data = <<>>
    /\ r_addr = None
    /\ r_data_size = 0
    /\ r_log = <<>>
    /\ r_result = [success |-> FALSE, data |-> None]

\* send_to(data, host, port, chunk_size) has just been called on a socket
\* whose datagrams nobody receives yet
InitSend ==
    /\ s_pc = "loop"
    /\ s_data \in Payloads
    /\ s_chunk_size \in ChunkSizes
    /\ s_data_sent = 0
    /\ s_result = None
    /\ s_log = <<>>
    /\ net = <<>> /\ n_foreign = 0 /\ n_lost = 0
    /\ r_pc = "idle" /\ r_buf_size = 0 /\ r_data = <<>> /\ r_addr = None
    /\ r_data_size = 0 /\ r_log = <<>> /\ r_result = [success |-> FALSE, data |-> None]

\* one iteration of the while loop of send_to in which sendto succeeds
SendChunk ==
    /\ s_pc = "loop"
    /\ s_data_sent < Len(s_data)
    /\ Len(s_log) < MaxSends
    /\ LET chunk == NextChunk(s_data, s_data_sent, s_chunk_size)
       IN  /\ net' = Append(net, [payload |-> chunk, addr |-> SenderAddr])
           /\ s_data_sent' = s_data_sent + Len(chunk)
           /\ s_log' = Append(s_log, chunk)
    /\ UNCHANGED <<s_pc, s_data, s_chunk_size, s_result, n_foreign, n_lost, recvVars,
                   workerVars, codecVars, clientVars, tcpVars,
                   factoryVars, hitlVars>>

\* a send failure that is noted while the loop goes on with the same chunk
SendError_KeepGoing ==
    /\ s_pc = "loop"
    /\ s_data_sent < Len(s_data)
    /\ s_result' = Some(FALSE)
    /\ UNCHANGED <<s_pc, s_data, s_chunk_size, s_data_sent, s_log, netVars, recvVars,
                   workerVars, codecVars, clientVars, tcpVars,
                   factoryVars, hitlVars>>

\* an iteration in which sendto raises socket.error: return False
SendError ==
    /\ s_pc = "loop"
    /\ s_data_sent < Len(s_data)
    /\ s_result' = Some(FALSE)
    /\ s_pc' = "returned"
    /\ UNCHANGED <<s_data, s_chunk_size, s_data_sent, s_log, netVars, recvVars,
                   workerVars, codecVars, clientVars, tcpVars,
                   factoryVars, hitlVars>>

\* a return of True that does not wait for the loop condition to fail
SendReturn_Early ==
    /\ s_pc = "loop"
    /\ s_result' = Some(TRUE)
    /\ s_pc' = "returned"
    /\ UNCHANGED <<s_data, s_chunk_size, s_data_sent, s_log, netVars, recvVars,
                   workerVars, codecVars, clientVars, tcpVars,
                   factoryVars, hitlVars>>

\* the loop condition fails: return True
SendReturn ==
    /\ s_pc = "loop"
    /\ ~(s_data_sent < Len(s_data))
    /\ s_result' = Some(TRUE)
    /\ s_pc' = "returned"
    /\ UNCHANGED <<s_data, s_chunk_size, s_data_sent, s_log, netVars, recvVars,
                   workerVars, codecVars, clientVars, tcpVars,
                   factoryVars, hitlVars>>

\* another host sends a datagram to the receiver's port
ForeignDatagram ==
    /\ n_foreign < MaxForeign
    /\ \E payload \in ForeignPayloads :
          net' = Append(net, [payload |-> payload, addr |-> ForeignAddr])
    /\ n_foreign' = n_foreign + 1
    /\ UNCHANGED <<n_lost, sendVars, recvVars, workerVars, codecVars, clientVars, tcpVars,
                   factoryVars, hitlVars>>

\* the network drops the oldest datagram in flight
LoseDatagram ==
    /\ n_lost < MaxLost
    /\ net # <<>>
    /\ net' = Tail(net)
    /\ n_lost' = n_lost + 1
    /\ UNCHANGED <<n_foreign, sendVars, recvVars, workerVars, codecVars, clientVars, tcpVars,
                   factoryVars, hitlVars>>

\* an iteration that appends the packet whatever address it came from
RecvPacket_NoFilter ==
    /\ r_pc = "loop"
    /\ r_data_size < r_buf_size
    /\ net # <<>>
    /\ LET got == recvfrom(Head(net), r_buf_size)
       IN  /\ r_addr' = IF r_addr = None THEN Some(got.current_addr) ELSE r_addr
           /\ r_data' = Accumulate(r_data, got.packet)
           /\ r_data_size' = r_data_size + Len(got.packet)
    /\ r_log' = Append(r_log, Head(net))
    /\ net' = Tail(net)
    /\ UNCHANGED <<r_pc, r_buf_size, r_result, n_foreign, n_lost, sendVars,
                   workerVars, codecVars, clientVars, tcpVars,
                   factoryVars, hitlVars>>

\* an iteration that counts the bytes of a discarded packet in data_size
RecvPacket_CountDiscarded ==
    /\ r_pc = "loop"
    /\ r_data_size < r_buf_size
    /\ net # <<>>
    /\ LET got == recvfrom(Head(net), r_buf_size)
           packet == IF r_addr # None /\ r_addr # Some(got.current_addr)
                     THEN <<>> ELSE got.packet
       IN  /\ r_addr' = IF r_addr = None THEN Some(got.current_addr) ELSE r_addr
           /\ r_data' = Accumulate(r_data, packet)
           /\ r_data_size' = r_data_size + Len(got.packet)
    /\ r_log' = Append(r_log, Head(net))
    /\ net' = Tail(net)
    /\ UNCHANGED <<r_pc, r_buf_size, r_result, n_foreign, n_lost, sendVars,
                   workerVars, codecVars, clientVars, tcpVars,
                   factoryVars, hitlVars>>

\* one iteration of the while loop of recv in which recvfrom returns a datagram
RecvPacket ==
    /\ r_pc = "loop"
    /\ r_data_size < r_buf_size
    /\ net # <<>>
    /\ LET got == recvfrom(Head(net), r_buf_size)
           packet == IF r_addr # None /\ r_addr # Some(got.current_addr)
                     THEN <<>> ELSE got.packet
       IN  /\ r_addr' = IF r_addr = None THEN Some(got.current_addr) ELSE r_addr
           /\ r_data' = Accumulate(r_data, packet)
           /\ r_data_size' = r_data_size + Len(packet)
    /\ r_log' = Append(r_log, Head(net))
    /\ net' = Tail(net)
    /\ UNCHANGED <<r_pc, r_buf_size, r_result, n_foreign, n_lost, sendVars,
                   workerVars, codecVars, clientVars, tcpVars,
                   factoryVars, hitlVars>>

\* a receive failure answered with what has been accumulated so far
RecvError_ReturnPartial ==
    /\ r_pc = "loop"
    /\ r_data_size < r_buf_size
    /\ r_result' = [success |-> TRUE, data |-> Some(r_data)]
    /\ r_pc' = "returned"
    /\ UNCHANGED <<r_buf_size, r_data, r_addr, r_data_size, r_log, netVars, sendVars,
                   workerVars, codecVars, clientVars, tcpVars,
                   factoryVars, hitlVars>>

\* an iteration in which recvfrom raises socket.error (a timeout is one):
\* return (False, None)
RecvError ==
    /\ r_pc = "loop"
    /\ r_data_size < r_buf_size
    /\ r_result' = [success |-> FALSE, data |-> None]
    /\ r_pc' = "returned"
    /\ UNCHANGED <<r_buf_size, r_data, r_addr, r_data_size, r_log, netVars, sendVars,
                   workerVars, codecVars, clientVars, tcpVars,
                   factoryVars, hitlVars>>

\* a return of (True, data) that does not wait for the loop condition to fail
RecvReturn_Early ==
    /\ r_pc = "loop"
    /\ r_result' = [success |-> TRUE, data |-> Some(r_data)]
    /\ r_pc' = "returned"
    /\ UNCHANGED <<r_buf_size, r_data, r_addr, r_data_size, r_log, netVars, sendVars,
                   workerVars, codecVars, clientVars, tcpVars,
                   factoryVars, hitlVars>>

\* the loop condition fails: return (True, data)
RecvReturn ==
    /\ r_pc = "loop"
    /\ ~(r_data_size < r_buf_size)
    /\ r_result' = [success |-> TRUE, data |-> Some(r_data)]
    /\ r_pc' = "returned"
    /\ UNCHANGED <<r_buf_size, r_data, r_addr, r_data_size, r_log, netVars, sendVars,
                   workerVars, codecVars, clientVars, tcpVars,
                   factoryVars, hitlVars>>

(***************************************************************************)
(* network/udp/client_socket.py: a UdpClientSocket after create, its send  *)
(* (which runs send_to of the base class with the default chunk_size) and  *)
(* its recv.  net holds the datagrams sent to the server address.          *)
(***************************************************************************)
CHUNK_SIZE == 32768     \* default chunk_size of send_to
MaxClientCalls == 2     \* send calls on one client socket

ServerAddresses == {"S1", "S2"}

\* no recv call has been made
NoRecv == [called |-> FALSE, buf_size |-> 0, raised |-> "", result |-> None]

ClientIdle ==
    /\ cl_pc = "idle" /\ cl_server_address = "" /\ cl_calls = 0
    /\ cl_send_result = None /\ cl_recv = NoRecv

\* create(host, port, connection_timeout) has returned (True, client)
InitClient ==
    /\ cl_pc = "ready"
    /\ cl_server_address \in ServerAddresses
    /\ cl_calls = 0
    /\ cl_send_result = None
    /\ cl_recv = NoRecv

\* send(data) is called and enters super().send_to(data, host, port)
ClientSend ==
    /\ cl_pc = "ready"
    /\ cl_calls < MaxClientCalls
    /\ \E data \in Payloads : s_data' = data
    /\ s_chunk_size' = CHUNK_SIZE
    /\ s_data_sent' = 0
    /\ s_result' = None
    /\ s_log' = <<>>
    /\ s_pc' = "loop"
    /\ cl_pc' = "send"
    /\ cl_calls' = cl_calls + 1
    /\ cl_send_result' = None
    /\ UNCHANGED <<cl_server_address, cl_recv, netVars, recvVars, workerVars, codecVars,
                   tcpVars,
                   factoryVars, hitlVars>>

\* send_to has returned: its value is dropped and send returns True
ClientSendReturn ==
    /\ cl_pc = "send"
    /\ s_pc = "returned"
    /\ cl_send_result' = Some(TRUE)
    /\ cl_pc' = "ready"
    /\ UNCHANGED <<cl_server_address, cl_calls, cl_recv, udpVars, workerVars, codecVars,
                   tcpVars,
                   factoryVars, hitlVars>>

\* a recv that runs recv of the base class on the socket
ClientRecv_Delegating ==
    /\ cl_pc = "ready"
    /\ \E buf_size \in BufSizes :
          cl_recv' = [called |-> TRUE, buf_size |-> buf_size, raised |-> "",
                      result |-> IF net = <<>> THEN Some(<<FALSE, None>>)
                                 ELSE Some(<<TRUE, Some(recvfrom(Head(net), buf_size).packet)>>)]
    /\ net' = IF net = <<>> THEN net ELSE Tail(net)
    /\ UNCHANGED <<cl_pc, cl_server_address, cl_calls, cl_send_result, n_foreign, n_lost,
                   sendVars, recvVars, workerVars, codecVars, tcpVars,
                   factoryVars, hitlVars>>

\* recv(buf_size): raise NotImplementedError
ClientRecv ==
    /\ cl_pc = "ready"
    /\ \E buf_size \in BufSizes :
          cl_recv' = [called |-> TRUE, buf_size |-> buf_size,
                      raised |-> "NotImplementedError", result |-> None]
    /\ UNCHANGED <<cl_pc, cl_server_address, cl_calls, cl_send_result, udpVars,
                   workerVars, codecVars, tcpVars,
                   factoryVars, hitlVars>>

(***************************************************************************)
(* network/tcp/socket_wrapper.py: recv calls on one connected TcpSocket.    *)
(* The peer sends the bytes of t_stream and then closes the connection;    *)
(* the transport hands them over in reads of any length.                   *)
(***************************************************************************)
RECV_LIMIT == 4096      \* most bytes asked of one socket.recv
MaxStream == 4          \* bytes the peer sends before it closes
MaxTcpCalls == 2        \* recv calls on one socket

Streams == {Ramp(n) : n \in 0..MaxStream}
TcpBufSizes == 0..(MaxStream + 1)

\* how a recv call ended: returned (success, data), or raised
TcpReturn(success, data) == [success |-> success, data |-> data, raised |-> FALSE]
TcpRaise == [success |-> FALSE, data |-> None, raised |-> TRUE]

\* a request for buf_size bytes whatever has been read already
ReadRequest_Whole(buf_size, bytes_recd) == Min(buf_size, RECV_LIMIT)

\* the argument of socket.recv
ReadRequest(buf_size, bytes_recd) == Min(buf_size - bytes_recd, RECV_LIMIT)

TcpIdle ==
    /\ t_pc = "idle" /\ t_stream = <<>> /\ t_pos = 0 /\ t_calls = 0 /\ t_start = 0
    /\ t_buf_size = 0 /\ t_message = <<>> /\ t_bytes_recd = 0 /\ t_reads = <<>>
    /\ t_result = None /\ t_outcomes = <<>>
    /\ t_closed = FALSE /\ t_closed_at = None /\ t_close_result = None
    /\ t_send = None

\* a connected TcpSocket on which nothing has been read
InitTcp ==
    /\ t_pc = "ready"
    /\ t_stream \in Streams
    /\ t_pos = 0 /\ t_calls = 0 /\ t_start = 0
    /\ t_buf_size = 0 /\ t_message = <<>> /\ t_bytes_recd = 0 /\ t_reads = <<>>
    /\ t_result = None /\ t_outcomes = <<>>
    /\ t_closed = FALSE /\ t_closed_at = None /\ t_close_result = None
    /\ t_send = None

\* recv(buf_size) is called: message = b"", bytes_recd = 0
TcpRecvCall ==
    /\ t_pc \in {"ready", "returned", "raised"}
    /\ t_calls < MaxTcpCalls
    /\ \E buf_size \in TcpBufSizes : t_buf_size' = buf_size
    /\ t_calls' = t_calls + 1
    /\ t_start' = t_pos
    /\ t_message' = <<>>
    /\ t_bytes_recd' = 0
    /\ t_reads' = <<>>
    /\ t_result' = None
    /\ t_pc' = "loop"
    /\ UNCHANGED <<t_stream, t_pos, t_outcomes, tcpHandleVars, workerVars, codecVars,
                   udpVars, clientVars,
                   factoryVars, hitlVars>>

\* one iteration of the while loop in which socket.recv returns some bytes
TcpReadChunk ==
    /\ t_pc = "loop"
    /\ t_bytes_recd < t_buf_size
    /\ ~t_closed
    /\ \E n \in 1..Min(ReadRequest(t_buf_size, t_bytes_recd), Len(t_stream) - t_pos) :
          LET chunk == SubSeq(t_stream, t_pos + 1, t_pos + n)
          IN  /\ t_message' = t_message \o chunk
              /\ t_bytes_recd' = t_bytes_recd + Len(chunk)
              /\ t_reads' = Append(t_reads, Len(chunk))
              /\ t_pos' = t_pos + n
    /\ UNCHANGED <<t_pc, t_stream, t_calls, t_start, t_buf_size, t_result, t_outcomes,
                   tcpHandleVars, workerVars, codecVars,
                   udpVars, clientVars,
                   factoryVars, hitlVars>>

\* a zero-byte read that is followed by another iteration
TcpReadEof_Continue ==
    /\ t_pc = "loop"
    /\ t_bytes_recd < t_buf_size
    /\ ~t_closed
    /\ t_pos = Len(t_stream)
    /\ t_reads' = Append(t_reads, 0)
    /\ UNCHANGED <<t_pc, t_stream, t_pos, t_calls, t_start, t_buf_size, t_message,
                   t_bytes_recd, t_result, t_outcomes,
                   tcpHandleVars, workerVars, codecVars,
                   udpVars, clientVars,
                   factoryVars, hitlVars>>

\* an iteration in which socket.recv returns b"" (the peer has closed and
\* everything it sent has been read): return (False, None)
TcpReadEof ==
    /\ t_pc = "loop"
    /\ t_bytes_recd < t_buf_size
    /\ ~t_closed
    /\ t_pos = Len(t_stream)
    /\ t_reads' = Append(t_reads, 0)
    /\ t_result' = Some(TcpReturn(FALSE, None))
    /\ t_outcomes' = Append(t_outcomes, TcpReturn(FALSE, None))
    /\ t_pc' = "returned"
    /\ UNCHANGED <<t_stream, t_pos, t_calls, t_start, t_buf_size, t_message, t_bytes_recd,
                   tcpHandleVars, workerVars, codecVars,
                   udpVars, clientVars,
                   factoryVars, hitlVars>>

\* an iteration in which socket.recv raises (timeout or socket error): nothing
\* in recv catches it, the exception leaves recv
TcpReadRaise ==
    /\ t_pc = "loop"
    /\ t_bytes_recd < t_buf_size
    /\ t_outcomes' = Append(t_outcomes, TcpRaise)
    /\ t_pc' = "raised"
    /\ UNCHANGED <<t_stream, t_pos, t_calls, t_start, t_buf_size, t_message, t_bytes_recd,
                   t_reads, t_result, tcpHandleVars, workerVars, codecVars,
                   udpVars, clientVars,
                   factoryVars, hitlVars>>

\* the loop condition fails: return (True, message)
TcpRecvReturn ==
    /\ t_pc = "loop"
    /\ ~(t_bytes_recd < t_buf_size)
    /\ t_result' = Some(TcpReturn(TRUE, Some(t_message)))
    /\ t_outcomes' = Append(t_outcomes, TcpReturn(TRUE, Some(t_message)))
    /\ t_pc' = "returned"
    /\ UNCHANGED <<t_stream, t_pos, t_calls, t_start, t_buf_size, t_message, t_bytes_recd,
                   t_reads, tcpHandleVars, workerVars, codecVars,
                   udpVars, clientVars,
                   factoryVars, hitlVars>>

\* what is kept of a send call; closed tells whether the socket had been
\* closed when the call was made
SendRecord(data, moved, result) ==
    [data |-> data, moved |-> moved, result |-> result, closed |-> t_closed]

\* send(data) in which sendall returns: return True
TcpSendOk ==
    /\ t_pc \in {"ready", "returned", "raised"}
    /\ ~t_closed
    /\ \E data \in Payloads : t_send' = Some(SendRecord(data, Len(data), TRUE))
    /\ UNCHANGED <<t_pc, t_stream, t_pos, t_calls, t_start, t_buf_size, t_message,
                   t_bytes_recd, t_reads, t_result, t_outcomes, t_closed, t_closed_at,
                   t_close_result, workerVars, codecVars, udpVars, clientVars,
                   factoryVars, hitlVars>>

\* send(data) in which sendall raises socket.error, as it always does on a
\* closed socket: return False.  On an open socket part of data may have gone.
TcpSendError ==
    /\ t_pc \in {"ready", "returned", "raised"}
    /\ \E data \in Payloads :
          \E moved \in 0..(IF t_closed THEN 0 ELSE Max(Len(data) - 1, 0)) :
             t_send' = Some(SendRecord(data, moved, FALSE))
    /\ UNCHANGED <<t_pc, t_stream, t_pos, t_calls, t_start, t_buf_size, t_message,
                   t_bytes_recd, t_reads, t_result, t_outcomes, t_closed, t_closed_at,
                   t_close_result, workerVars, codecVars, udpVars, clientVars,
                   factoryVars, hitlVars>>

\* close() in which socket.close returns: return True
TcpCloseOk ==
    /\ t_pc \in {"ready", "returned", "raised"}
    /\ t_closed' = TRUE
    /\ t_closed_at' = IF t_closed THEN t_closed_at ELSE Some(t_calls)
    /\ t_close_result' = Some(TRUE)
    /\ UNCHANGED <<t_pc, t_stream, t_pos, t_calls, t_start, t_buf_size, t_message,
                   t_bytes_recd, t_reads, t_result, t_outcomes, t_send,
                   workerVars, codecVars, udpVars, clientVars,
                   factoryVars, hitlVars>>

\* close() in which socket.close raises socket.error: return False.  Whether
\* the descriptor was released all the same is up to the operating system.
TcpCloseError ==
    /\ t_pc \in {"ready", "returned", "raised"}
    /\ ~t_closed
    /\ \E released \in BOOLEAN :
          /\ t_closed' = released
          /\ t_closed_at' = IF released THEN Some(t_calls) ELSE t_closed_at
    /\ t_close_result' = Some(FALSE)
    /\ UNCHANGED <<t_pc, t_stream, t_pos, t_calls, t_start, t_buf_size, t_message,
                   t_bytes_recd, t_reads, t_result, t_outcomes, t_send,
                   workerVars, codecVars, udpVars, clientVars,
                   factoryVars, hitlVars>>

(***************************************************************************)
(* The create factories of network/udp/client_socket.py,                   *)
(* network/udp/server_socket.py and network/tcp/client_socket.py, the      *)
(* sockets they open and the wrappers they construct.  A socket is known   *)
(* by its index in f_handles, a wrapper by its index in f_wrappers.        *)
(***************************************************************************)
MaxCreates == 2         \* create calls
MaxCallerSockets == 1   \* sockets the caller opens itself

ConnectionTimeouts == {-1, 0, 60}

\* a socket: open or closed, opened by a factory ("create") or by the caller
Handle(open, origin) == [open |-> open, origin |-> origin]

\* a wrapper that holds the first socket ever opened, whatever it is given
Wrapper_FirstHandle(class, handle) == [class |-> class, handle |-> 1, exposed |-> FALSE]

\* a wrapper object: self.__socket = socket_instance; exposed tells whether
\* get_socket has been called on it
Wrapper(class, handle) == [class |-> class, handle |-> handle, exposed |-> FALSE]

\* what is kept of a create call: its arguments, the (bool, wrapper) pair it
\* returned, the socket it opened itself if any, the branch it left by, and
\* whether the socket of the returned wrapper was open at the return
CreateResult(factory, timeout, instance, success, wrapper, opened, branch, usable) ==
    [factory |-> factory, connection_timeout |-> timeout, instance |-> instance,
     success |-> success, wrapper |-> wrapper, opened |-> opened, branch |-> branch,
     usable |-> usable]

\* the socket a call to socket.socket or socket.create_connection opens
NewHandle == Len(f_handles) + 1

NewWrapper == Len(f_wrappers) + 1

\* some wrapper or some code outside the wrappers holds a reference to h
Referenced(h) ==
    \/ h \in f_outside
    \/ \E w \in 1..Len(f_wrappers) : f_wrappers[w].handle = h

FactoryIdle ==
    /\ f_handles = <<>> /\ f_wrappers = <<>> /\ f_outside = {} /\ f_results = <<>>

\* no socket has been opened and no factory called
InitFactory ==
    /\ f_handles = <<>> /\ f_wrappers = <<>> /\ f_outside = {} /\ f_results = <<>>

\* create returns (False, None) having opened nothing
ReturnFailure(factory, timeout, branch) ==
    /\ f_results' = Append(f_results,
                           CreateResult(factory, timeout, None, FALSE, None, None,
                                        branch, FALSE))
    /\ UNCHANGED <<f_handles, f_wrappers, f_outside>>

\* create opens a socket and returns (True, wrapper of that socket)
ReturnNewWrapper(factory, timeout) ==
    /\ f_handles' = Append(f_handles, Handle(TRUE, "create"))
    /\ f_wrappers' = Append(f_wrappers, Wrapper(factory, NewHandle))
    /\ f_results' = Append(f_results,
                           CreateResult(factory, timeout, None, TRUE, Some(NewWrapper),
                                        Some(NewHandle), "ok", TRUE))
    /\ UNCHANGED f_outside

\* the caller opens a socket of its own
CallerSocket ==
    /\ Cardinality({h \in 1..Len(f_handles) : f_handles[h].origin = "caller"})
          < MaxCallerSockets
    /\ f_handles' = Append(f_handles, Handle(TRUE, "caller"))
    /\ f_outside' = f_outside \cup {NewHandle}
    /\ UNCHANGED <<f_wrappers, f_results>>
    /\ UNCHANGED <<workerVars, codecVars, udpVars, clientVars, tcpVars, hitlVars>>

\* code outside the wrappers closes a socket it holds
CallerClose ==
    /\ \E h \in f_outside :
          /\ f_handles[h].open
          /\ f_handles' = [f_handles EXCEPT ![h].open = FALSE]
    /\ UNCHANGED <<f_wrappers, f_outside, f_results>>
    /\ UNCHANGED <<workerVars, codecVars, udpVars, clientVars, tcpVars, hitlVars>>

\* UdpClientSocket.create with connection_timeout <= 0
UdpClientCreateBadTimeout ==
    /\ Len(f_results) < MaxCreates
    /\ \E timeout \in ConnectionTimeouts :
          /\ timeout <= 0
          /\ ReturnFailure("UdpClientSocket", timeout, "timeout")
    /\ UNCHANGED <<workerVars, codecVars, udpVars, clientVars, tcpVars, hitlVars>>

\* UdpClientSocket.create: socket.socket and settimeout return
UdpClientCreateOk ==
    /\ Len(f_results) < MaxCreates
    /\ \E timeout \in ConnectionTimeouts :
          /\ ~(timeout <= 0)
          /\ ReturnNewWrapper("UdpClientSocket", timeout)
    /\ UNCHANGED <<workerVars, codecVars, udpVars, clientVars, tcpVars, hitlVars>>

\* UdpClientSocket.create: socket.socket raises socket.error
UdpClientCreateError ==
    /\ Len(f_results) < MaxCreates
    /\ \E timeout \in ConnectionTimeouts :
          /\ ~(timeout <= 0)
          /\ ReturnFailure("UdpClientSocket", timeout, "socket")
    /\ UNCHANGED <<workerVars, codecVars, udpVars, clientVars, tcpVars, hitlVars>>

\* UdpServerSocket.create with connection_timeout <= 0
UdpServerCreateBadTimeout ==
    /\ Len(f_results) < MaxCreates
    /\ \E timeout \in ConnectionTimeouts :
          /\ timeout <= 0
          /\ ReturnFailure("UdpServerSocket", timeout, "timeout")
    /\ UNCHANGED <<workerVars, codecVars, udpVars, clientVars, tcpVars, hitlVars>>

\* UdpServerSocket.create: socket.socket, settimeout and bind return
UdpServerCreateOk ==
    /\ Len(f_results) < MaxCreates
    /\ \E timeout \in ConnectionTimeouts :
          /\ ~(timeout <= 0)
          /\ ReturnNewWrapper("UdpServerSocket", timeout)
    /\ UNCHANGED <<workerVars, codecVars, udpVars, clientVars, tcpVars, hitlVars>>

\* UdpServerSocket.create: socket.socket raises socket.error
UdpServerCreateSocketError ==
    /\ Len(f_results) < MaxCreates
    /\ \E timeout \in ConnectionTimeouts :
          /\ ~(timeout <= 0)
          /\ ReturnFailure("UdpServerSocket", timeout, "socket")
    /\ UNCHANGED <<workerVars, codecVars, udpVars, clientVars, tcpVars, hitlVars>>

\* UdpServerSocket.create: socket.socket returns, then bind raises TimeoutError
\* or socket.error: return (False, None); socket_instance is not closed
UdpServerCreateBindError ==
    /\ Len(f_results) < MaxCreates
    /\ \E timeout \in ConnectionTimeouts :
          /\ ~(timeout <= 0)
          /\ f_handles' = Append(f_handles, Handle(TRUE, "create"))
          /\ f_results' = Append(f_results,
                                 CreateResult("UdpServerSocket", timeout, None, FALSE, None,
                                              Some(NewHandle), "bind", FALSE))
    /\ UNCHANGED <<f_wrappers, f_outside>>
    /\ UNCHANGED <<workerVars, codecVars, udpVars, clientVars, tcpVars, hitlVars>>

\* a create that tests connection_timeout before it looks at instance
TcpClientCreateInstance_TimeoutFirst ==
    /\ Len(f_results) < MaxCreates
    /\ \E instance \in f_outside, timeout \in ConnectionTimeouts :
          IF timeout <= 0
          THEN /\ f_results' = Append(f_results,
                                      CreateResult("TcpClientSocket", timeout, Some(instance),
                                                   FALSE, None, None, "timeout", FALSE))
               /\ UNCHANGED f_wrappers
          ELSE /\ f_wrappers' = Append(f_wrappers, Wrapper("TcpClientSocket", instance))
               /\ f_results' = Append(f_results,
                                      CreateResult("TcpClientSocket", timeout, Some(instance),
                                                   TRUE, Some(NewWrapper), None, "instance",
                                                   f_handles[instance].open))
    /\ UNCHANGED <<f_handles, f_outside>>
    /\ UNCHANGED <<workerVars, codecVars, udpVars, clientVars, tcpVars, hitlVars>>

\* TcpClientSocket.create with an instance: return (True, wrapper of instance)
TcpClientCreateInstance ==
    /\ Len(f_results) < MaxCreates
    /\ \E instance \in f_outside, timeout \in ConnectionTimeouts :
          /\ f_wrappers' = Append(f_wrappers, Wrapper("TcpClientSocket", instance))
          /\ f_results' = Append(f_results,
                                 CreateResult("TcpClientSocket", timeout, Some(instance),
                                              TRUE, Some(NewWrapper), None, "instance",
                                              f_handles[instance].open))
    /\ UNCHANGED <<f_handles, f_outside>>
    /\ UNCHANGED <<workerVars, codecVars, udpVars, clientVars, tcpVars, hitlVars>>

\* TcpClientSocket.create without instance, connection_timeout <= 0
TcpClientCreateBadTimeout ==
    /\ Len(f_results) < MaxCreates
    /\ \E timeout \in ConnectionTimeouts :
          /\ timeout <= 0
          /\ ReturnFailure("TcpClientSocket", timeout, "timeout")
    /\ UNCHANGED <<workerVars, codecVars, udpVars, clientVars, tcpVars, hitlVars>>

\* TcpClientSocket.create without instance: create_connection returns
TcpClientCreateOk ==
    /\ Len(f_results) < MaxCreates
    /\ \E timeout \in ConnectionTimeouts :
          /\ ~(timeout <= 0)
          /\ ReturnNewWrapper("TcpClientSocket", timeout)
    /\ UNCHANGED <<workerVars, codecVars, udpVars, clientVars, tcpVars, hitlVars>>

\* TcpClientSocket.create without instance: create_connection raises
\* TimeoutError, socket.gaierror or socket.error (it leaves no socket open)
TcpClientCreateError ==
    /\ Len(f_results) < MaxCreates
    /\ \E timeout \in ConnectionTimeouts :
          /\ ~(timeout <= 0)
          /\ ReturnFailure("TcpClientSocket", timeout, "connect")
    /\ UNCHANGED <<workerVars, codecVars, udpVars, clientVars, tcpVars, hitlVars>>

\* get_socket() of a wrapper: the caller now holds the socket
GetSocket ==
    /\ \E w \in 1..Len(f_wrappers) :
          /\ ~f_wrappers[w].exposed
          /\ f_outside' = f_outside \cup {f_wrappers[w].handle}
          /\ f_wrappers' = [f_wrappers EXCEPT ![w].exposed = TRUE]
    /\ UNCHANGED <<f_handles, f_results>>
    /\ UNCHANGED <<workerVars, codecVars, udpVars, clientVars, tcpVars, hitlVars>>

\* close() of a TcpSocket wrapper (the datagram wrappers have no close)
WrapperClose ==
    /\ \E w \in 1..Len(f_wrappers) :
          /\ f_wrappers[w].class = "TcpClientSocket"
          /\ f_handles[f_wrappers[w].handle].open
          /\ f_handles' = [f_handles EXCEPT ![f_wrappers[w].handle].open = FALSE]
    /\ UNCHANGED <<f_wrappers, f_outside, f_results>>
    /\ UNCHANGED <<workerVars, codecVars, udpVars, clientVars, tcpVars, hitlVars>>

\* the interpreter finalizes a socket object nothing refers to any more; when
\* it does so is not fixed by the language
Finalize ==
    /\ \E h \in 1..Len(f_handles) :
          /\ f_handles[h].open
          /\ ~Referenced(h)
          /\ f_handles' = [f_handles EXCEPT ![h].open = FALSE]
    /\ UNCHANGED <<f_wrappers, f_outside, f_results>>
    /\ UNCHANGED <<workerVars, codecVars, udpVars, clientVars, tcpVars, hitlVars>>

(***************************************************************************)
(* hitl/hitl_base.py: one HITL object, the thread that calls its start and *)
(* shutdown, and the emulator threads start creates.  An Event is known by *)
(* its index in h_events, a thread by its index in h_thr.                  *)
(***************************************************************************)
MaxHitlCalls == 4       \* start and shutdown calls on one HITL object

\* a thread start has just started: it stands before the assert of its target.
\* stopped tells that a shutdown call made after its start has returned;
\* late_check and late_periodic tell that it then evaluated the loop condition
\* or called periodic() all the same.
NewThread(target) ==
    [target |-> target, pc |-> "assert", stopped |-> FALSE,
     late_check |-> FALSE, late_periodic |-> FALSE]

\* Thread.is_alive()
IsAlive(i) == h_thr[i].pc # "dead"

HitlIdle ==
    /\ h_pc = "idle" /\ h_position_emulator = FALSE /\ h_camera_emulator = FALSE
    /\ h_stop_event = None /\ h_events = <<>> /\ h_threads = <<>> /\ h_thr = <<>>
    /\ h_join = 0 /\ h_calls = 0

\* HITL.create has returned (True, hitl)
InitHitl ==
    /\ h_pc = "ready"
    /\ h_position_emulator \in BOOLEAN
    /\ h_camera_emulator \in BOOLEAN
    /\ h_stop_event = None /\ h_events = <<>> /\ h_threads = <<>> /\ h_thr = <<>>
    /\ h_join = 0 /\ h_calls = 0

\* start() while _stop_event is not None: return
StartAgain ==
    /\ h_pc = "ready"
    /\ h_calls < MaxHitlCalls
    /\ h_stop_event # None
    /\ h_calls' = h_calls + 1
    /\ UNCHANGED <<h_pc, h_position_emulator, h_camera_emulator, h_stop_event, h_events,
                   h_threads, h_thr, h_join>>
    /\ UNCHANGED <<workerVars, codecVars, udpVars, clientVars, tcpVars, factoryVars>>

\* start(): _stop_event = Event(), _threads = []
StartEnter ==
    /\ h_pc = "ready"
    /\ h_calls < MaxHitlCalls
    /\ h_stop_event = None
    /\ h_calls' = h_calls + 1
    /\ h_events' = Append(h_events, FALSE)
    /\ h_stop_event' = Some(Len(h_events) + 1)
    /\ h_threads' = <<>>
    /\ h_pc' = "start_position"
    /\ UNCHANGED <<h_position_emulator, h_camera_emulator, h_thr, h_join>>
    /\ UNCHANGED <<workerVars, codecVars, udpVars, clientVars, tcpVars, factoryVars>>

\* start(): the position thread is created and started if there is a
\* position emulator
StartPosition ==
    /\ h_pc = "start_position"
    /\ IF h_position_emulator
       THEN /\ h_thr' = Append(h_thr, NewThread("position"))
            /\ h_threads' = Append(h_threads, Len(h_thr) + 1)
       ELSE UNCHANGED <<h_thr, h_threads>>
    /\ h_pc' = "start_camera"
    /\ UNCHANGED <<h_position_emulator, h_camera_emulator, h_stop_event, h_events,
                   h_join, h_calls>>
    /\ UNCHANGED <<workerVars, codecVars, udpVars, clientVars, tcpVars, factoryVars>>

\* start(): the camera thread is created and started if there is a camera
\* emulator; start returns
StartCamera ==
    /\ h_pc = "start_camera"
    /\ IF h_camera_emulator
       THEN /\ h_thr' = Append(h_thr, NewThread("camera"))
            /\ h_threads' = Append(h_threads, Len(h_thr) + 1)
       ELSE UNCHANGED <<h_thr, h_threads>>
    /\ h_pc' = "ready"
    /\ UNCHANGED <<h_position_emulator, h_camera_emulator, h_stop_event, h_events,
                   h_join, h_calls>>
    /\ UNCHANGED <<workerVars, codecVars, udpVars, clientVars, tcpVars, factoryVars>>

\* shutdown() while _stop_event is None: return
ShutdownAgain ==
    /\ h_pc = "ready"
    /\ h_calls < MaxHitlCalls
    /\ h_stop_event = None
    /\ h_calls' = h_calls + 1
    /\ UNCHANGED <<h_pc, h_position_emulator, h_camera_emulator, h_stop_event, h_events,
                   h_threads, h_thr, h_join>>
    /\ UNCHANGED <<workerVars, codecVars, udpVars, clientVars, tcpVars, factoryVars>>

\* shutdown(): _stop_event.set(), the for loop begins
ShutdownEnter ==
    /\ h_pc = "ready"
    /\ h_calls < MaxHitlCalls
    /\ h_stop_event # None
    /\ h_calls' = h_calls + 1
    /\ h_events' = [h_events EXCEPT ![h_stop_event[1]] = TRUE]
    /\ h_join' = 1
    /\ h_pc' = "shutdown_join"
    /\ UNCHANGED <<h_position_emulator, h_camera_emulator, h_stop_event, h_threads, h_thr>>
    /\ UNCHANGED <<workerVars, codecVars, udpVars, clientVars, tcpVars, factoryVars>>

\* shutdown(): the thread of this iteration has ended, before is_alive() or
\* during join
ShutdownJoined ==
    /\ h_pc = "shutdown_join"
    /\ h_join <= Len(h_threads)
    /\ ~IsAlive(h_threads[h_join])
    /\ h_join' = h_join + 1
    /\ UNCHANGED <<h_pc, h_position_emulator, h_camera_emulator, h_stop_event, h_events,
                   h_threads, h_thr, h_calls>>
    /\ UNCHANGED <<workerVars, codecVars, udpVars, clientVars, tcpVars, factoryVars>>

\* shutdown(): join(timeout=join_timeout) returns because the timeout has
\* expired; the thread is still alive
ShutdownJoinTimeout ==
    /\ h_pc = "shutdown_join"
    /\ h_join <= Len(h_threads)
    /\ IsAlive(h_threads[h_join])
    /\ h_join' = h_join + 1
    /\ UNCHANGED <<h_pc, h_position_emulator, h_camera_emulator, h_stop_event, h_events,
                   h_threads, h_thr, h_calls>>
    /\ UNCHANGED <<workerVars, codecVars, udpVars, clientVars, tcpVars, factoryVars>>

\* shutdown(): the for loop is over: _threads.clear(), _stop_event = None,
\* return
ShutdownReturn ==
    /\ h_pc = "shutdown_join"
    /\ h_join > Len(h_threads)
    /\ h_threads' = <<>>
    /\ h_stop_event' = None
    /\ h_thr' = [i \in 1..Len(h_thr) |-> [h_thr[i] EXCEPT !.stopped = TRUE]]
    /\ h_pc' = "ready"
    /\ UNCHANGED <<h_position_emulator, h_camera_emulator, h_events, h_join, h_calls>>
    /\ UNCHANGED <<workerVars, codecVars, udpVars, clientVars, tcpVars, factoryVars>>

\* run_position / run_camera: assert self._stop_event is not None
ThreadAssert ==
    /\ \E i \in 1..Len(h_thr) :
          /\ h_thr[i].pc = "assert"
          /\ h_thr' = [h_thr EXCEPT ![i].pc = IF h_stop_event = None THEN "dead" ELSE "check"]
    /\ UNCHANGED <<h_pc, h_position_emulator, h_camera_emulator, h_stop_event, h_events,
                   h_threads, h_join, h_calls>>
    /\ UNCHANGED <<workerVars, codecVars, udpVars, clientVars, tcpVars, factoryVars>>

\* run_position / run_camera: while not self._stop_event.is_set().  The
\* attribute is read anew: with None the thread ends by AttributeError, with
\* an Event that is set the loop ends, otherwise periodic() is called.
ThreadCheck ==
    /\ \E i \in 1..Len(h_thr) :
          /\ h_thr[i].pc = "check"
          /\ LET goes_on == h_stop_event # None /\ ~h_events[h_stop_event[1]]
             IN  h_thr' = [h_thr EXCEPT
                              ![i].pc = IF goes_on THEN "periodic" ELSE "dead",
                              ![i].late_check = @ \/ h_thr[i].stopped,
                              ![i].late_periodic = @ \/ (h_thr[i].stopped /\ goes_on)]
    /\ UNCHANGED <<h_pc, h_position_emulator, h_camera_emulator, h_stop_event, h_events,
                   h_threads, h_join, h_calls>>
    /\ UNCHANGED <<workerVars, codecVars, udpVars, clientVars, tcpVars, factoryVars>>

\* run_position / run_camera: periodic() returns, or raises and the handler
\* has printed and slept; the loop condition is next
ThreadPeriodic ==
    /\ \E i \in 1..Len(h_thr) :
          /\ h_thr[i].pc = "periodic"
          /\ h_thr' = [h_thr EXCEPT ![i].pc = "check"]
    /\ UNCHANGED <<h_pc, h_position_emulator, h_camera_emulator, h_stop_event, h_events,
                   h_threads, h_join, h_calls>>
    /\ UNCHANGED <<workerVars, codecVars, udpVars, clientVars, tcpVars, factoryVars>>

(***************************************************************************)
(* Specifications                                                          *)
(***************************************************************************)
NextWorker == LookupInt \/ ValueOfTag \/ LookupValue
InitWorkerSpec == InitWorker /\ CodecIdle /\ UdpIdle /\ ClientIdle /\ TcpIdle
    /\ FactoryIdle /\ HitlIdle
SpecWorker == InitWorkerSpec /\ [][NextWorker]_vars

NextCodec ==
    \/ EncodePositionGlobal
    \/ DecodeBytesToPositionGlobal
    \/ EncodeMetadata
    \/ DecodeMetadata
InitCodecSpec == InitCodec /\ WorkerIdle /\ UdpIdle /\ ClientIdle /\ TcpIdle
    /\ FactoryIdle /\ HitlIdle
SpecCodec == InitCodecSpec /\ [][NextCodec]_vars

NextUdp ==
    \/ SendChunk
    \/ SendError
    \/ SendReturn
    \/ ForeignDatagram
    \/ LoseDatagram
    \/ RecvPacket
    \/ RecvError
    \/ RecvReturn
InitUdpSpec == InitUdp /\ WorkerIdle /\ CodecIdle /\ ClientIdle /\ TcpIdle
    /\ FactoryIdle /\ HitlIdle
SpecUdp == InitUdpSpec /\ [][NextUdp]_vars

\* send_to alone; the thread that runs it keeps running, so a step of the
\* loop that can be taken is taken
NextSend == SendChunk \/ SendError \/ SendReturn
InitSendSpec ==
    InitSend /\ WorkerIdle /\ CodecIdle /\ ClientIdle /\ TcpIdle /\ FactoryIdle /\ HitlIdle
SpecSend == InitSendSpec /\ [][NextSend]_vars /\ WF_vars(NextSend)

NextUdpClient ==
    \/ ClientSend
    \/ SendChunk
    \/ SendError
    \/ SendReturn
    \/ ClientSendReturn
    \/ ClientRecv
InitUdpClientSpec == InitClient /\ UdpIdle /\ WorkerIdle /\ CodecIdle /\ TcpIdle
    /\ FactoryIdle /\ HitlIdle
SpecUdpClient == InitUdpClientSpec /\ [][NextUdpClient]_vars

NextTcp ==
    \/ TcpRecvCall
    \/ TcpReadChunk
    \/ TcpReadEof
    \/ TcpReadRaise
    \/ TcpRecvReturn
    \/ TcpSendOk
    \/ TcpSendError
    \/ TcpCloseOk
    \/ TcpCloseError
InitTcpSpec == InitTcp /\ WorkerIdle /\ CodecIdle /\ UdpIdle /\ ClientIdle
    /\ FactoryIdle /\ HitlIdle
SpecTcp == InitTcpSpec /\ [][NextTcp]_vars

NextFactory ==
    \/ CallerSocket
    \/ CallerClose
    \/ UdpClientCreateBadTimeout
    \/ UdpClientCreateOk
    \/ UdpClientCreateError
    \/ UdpServerCreateBadTimeout
    \/ UdpServerCreateOk
    \/ UdpServerCreateSocketError
    \/ UdpServerCreateBindError
    \/ TcpClientCreateInstance
    \/ TcpClientCreateBadTimeout
    \/ TcpClientCreateOk
    \/ TcpClientCreateError
    \/ GetSocket
    \/ WrapperClose
    \/ Finalize
InitFactorySpec ==
    InitFactory /\ WorkerIdle /\ CodecIdle /\ UdpIdle /\ ClientIdle /\ TcpIdle /\ HitlIdle
SpecFactory == InitFactorySpec /\ [][NextFactory]_vars

NextHitl ==
    \/ StartAgain
    \/ StartEnter
    \/ StartPosition
    \/ StartCamera
    \/ ShutdownAgain
    \/ ShutdownEnter
    \/ ShutdownJoined
    \/ ShutdownJoinTimeout
    \/ ShutdownReturn
    \/ ThreadAssert
    \/ ThreadCheck
    \/ ThreadPeriodic
InitHitlSpec ==
    InitHitl /\ WorkerIdle /\ CodecIdle /\ UdpIdle /\ ClientIdle /\ TcpIdle /\ FactoryIdle
SpecHitl == InitHitlSpec /\ [][NextHitl]_vars

(***************************************************************************)
(* Vocabulary of the properties, stated on the text of a buffer without    *)
(* running a decoder                                                       *)
(***************************************************************************)
Registered(worker_id) == worker_id.type = "WorkerEnum"
FiniteFields(p) == isfinite(p.latitude) /\ isfinite(p.longitude) /\ isfinite(p.altitude)
Encoded == c_pc \in {"encoded", "decoded"}
DecodedOwnBuffer ==
    c_pc = "decoded" /\ c_encoded.success /\ c_wire = c_encoded.encoded_str[1]

NumPads(text) ==
    IF Len(text) >= 2 /\ text[Len(text)] = BASE64_PAD /\ text[Len(text) - 1] = BASE64_PAD
    THEN 2
    ELSE IF Len(text) >= 1 /\ text[Len(text)] = BASE64_PAD THEN 1 ELSE 0

\* canonical armor: whole quads of alphabet characters, at most two pads, at the end
WellArmored(text) ==
    /\ Len(text) % 4 = 0
    /\ \A i \in 1..(Len(text) - NumPads(text)) : text[i] \in 0..63
    /\ \A i \in (Len(text) - NumPads(text) + 1)..Len(text) : text[i] = BASE64_PAD

ArmoredRawLen(text) == (Len(text) \div 4) * 3 - NumPads(text)
FirstRawByte(text) == text[1] * 4 + text[2] \div 16
LayoutSize == IF c_kind = "position" THEN 25 ELSE 5
DecodeFailure == DecodeReturn(FALSE, None, None)

(***************************************************************************)
(* Properties                                                              *)
(***************************************************************************)

\* C1: for every registered tag and every triple of finite doubles,
\* encode_position_global succeeds and decoding its buffer succeeds with the same
\* tag and the same three fields, bit for bit, in the same order.
C1_PositionRoundTrip ==
    (c_kind = "position" /\ Encoded /\ Registered(c_worker) /\ FiniteFields(c_position))
        => /\ c_encoded.success
           /\ DecodedOwnBuffer
                => c_decoded = DecodeReturn(TRUE, Some(c_worker.name), Some(c_position))

C1_Witness ==
    /\ c_kind = "position" /\ DecodedOwnBuffer
    /\ c_worker = Member("GEOLOCATION_WORKER")
    /\ c_position = [latitude |-> NegOneAndHalf, longitude |-> MinSubnormal,
                     altitude |-> NegZero]
    /\ c_decoded.success /\ c_decoded.value = Some(c_position)

\* C2: for every registered tag and every count in the signed 32-bit range,
\* encode_metadata succeeds and decode_metadata of its buffer returns exactly
\* (tag, count).
C2_MetadataRoundTrip ==
    (c_kind = "metadata" /\ Encoded /\ Registered(c_worker) /\ InInt32(c_count))
        => /\ c_encoded.success
           /\ DecodedOwnBuffer
                => c_decoded = DecodeReturn(TRUE, Some(c_worker.name), Some(c_count))

C2_Witness ==
    /\ c_kind = "metadata" /\ DecodedOwnBuffer
    /\ c_worker = Member("DATA_MERGE_WORKER")
    /\ c_count = PyInt(-32768, 0)
    /\ c_decoded.success /\ c_decoded.value = Some(c_count)

\* C3: decoding a correctly armored buffer of the layout's raw length whose first
\* raw byte is outside 1..7 returns (False, None, None); it does not raise.
C3_InvalidTagReturnsFailure ==
    (c_pc = "decoded" /\ WellArmored(c_wire) /\ ArmoredRawLen(c_wire) = LayoutSize
        /\ FirstRawByte(c_wire) \notin 1..7)
        => c_decoded = DecodeFailure

\* C4: encoding with a worker id that is not a WorkerEnum member, a bare integer
\* inside or outside 1..7, returns (False, None).
C4_EncodeRejectsUnregisteredTag ==
    (Encoded /\ ~Registered(c_worker)) => c_encoded = EncodeReturn(FALSE, None)

C4_Witness ==
    /\ c_pc = "encoded" /\ c_kind = "metadata" /\ c_worker = BareInt(3)
    /\ c_count = PyInt(0, 1) /\ c_encoded = EncodeReturn(FALSE, None)

\* C5: decoding a validly armored buffer whose raw length is not 25 (position) or
\* 5 (metadata) returns (False, None, None), whatever the bytes are.
C5_LengthMismatchReturnsFailure ==
    (c_pc = "decoded" /\ WellArmored(c_wire) /\ ArmoredRawLen(c_wire) # LayoutSize)
        => c_decoded = DecodeFailure

C5_Witness ==
    /\ c_pc = "decoded" /\ c_kind = "position" /\ WellArmored(c_wire)
    /\ ArmoredRawLen(c_wire) = 26 /\ FirstRawByte(c_wire) = 8
    /\ c_decoded = DecodeFailure

\* C6: decoding a buffer whose armor is invalid (a character outside the
\* alphabet, wrong padding) returns a failure outcome: no exception, no record.
C6_MalformedArmorReturnsFailure ==
    (c_pc = "decoded" /\ ~WellArmored(c_wire))
        => ~c_decoded.raised /\ ~c_decoded.success

\* C7 as stated: with a NaN or infinite field, encode_position_global returns
\* (False, None).
C7_NonFiniteRejected ==
    (c_kind = "position" /\ Encoded /\ ~FiniteFields(c_position))
        => c_encoded = EncodeReturn(FALSE, None)

\* C7 amended: with a registered tag and a NaN or infinite field,
\* encode_position_global returns (True, buffer), the armor of the 25 packed
\* bytes, and decoding that buffer returns the same tag and the same bit patterns.
C7_NonFiniteEncoded ==
    (c_kind = "position" /\ Encoded /\ Registered(c_worker) /\ ~FiniteFields(c_position))
        => /\ c_encoded.success
           /\ Len(c_encoded.encoded_str[1]) = 36
           /\ DecodedOwnBuffer
                => c_decoded = DecodeReturn(TRUE, Some(c_worker.name), Some(c_position))

C7_Witness ==
    /\ c_kind = "position" /\ DecodedOwnBuffer
    /\ c_position = [latitude |-> QuietNaN, longitude |-> PosInfinity,
                     altitude |-> NegInfinity]
    /\ c_decoded.success /\ c_decoded.value = Some(c_position)

\* C8: encode_metadata returns (False, None) for every count outside
\* -2^31..2^31-1; the count is never wrapped into an encodable value.
C8_CountOutOfRangeRejected ==
    (c_kind = "metadata" /\ Encoded /\ ~InInt32(c_count))
        => c_encoded = EncodeReturn(FALSE, None)

C8_Witness ==
    /\ c_kind = "metadata" /\ c_pc = "encoded" /\ Registered(c_worker)
    /\ c_count = PyInt(65536, 5) /\ c_encoded = EncodeReturn(FALSE, None)

\* C9: the seven tags map one-to-one onto 1..7: member.value is defined and
\* distinct for every tag, WorkerEnum(member.value) is the member, WorkerEnum(n)
\* fails for every n outside 1..7 and succeeds with a member of value n inside.
C9_TagBijection ==
    /\ Cardinality(WorkerNames) = 7
    /\ \A t \in WorkerNames : WorkerEnumValue(t) \in 1..7
    /\ \A t1, t2 \in WorkerNames : WorkerEnumValue(t1) = WorkerEnumValue(t2) => t1 = t2
    /\ w_pc \in {"looked", "valued", "done"}
         => /\ w_from_int.raised <=> w_n \notin 1..7
            /\ ~w_from_int.raised => WorkerEnumValue(w_from_int.member[1]) = w_n
    /\ w_pc = "done" => ~w_back.raised /\ w_back.member = Some(w_tag)

C9_Witness ==
    /\ w_pc = "done" /\ w_n = 8 /\ w_from_int.raised
    /\ w_tag = "VIDEO_INPUT_WORKER" /\ w_value = Some(7) /\ w_back.member = Some(w_tag)

\* C10: for any payload and any chunk_size >= 1, when send_to returned True, no
\* other host sent to the port and the network lost nothing, recv(len(data))
\* returns success with exactly the bytes of data in order: what it returns on
\* success is data, and once every datagram has been received its loop has ended
\* with data complete, so that it returns (True, data).
C10_ChunkedTransfer ==
    (s_chunk_size >= 1 /\ s_result = Some(TRUE) /\ r_buf_size = Len(s_data)
        /\ n_foreign = 0 /\ n_lost = 0)
        => /\ (r_pc = "returned" /\ r_result.success) => r_result.data = Some(s_data)
           /\ (r_pc = "loop" /\ net = <<>>)
                => r_data = s_data /\ ~(r_data_size < r_buf_size)

C10_Witness ==
    /\ s_data = <<1, 2, 3>> /\ s_chunk_size = 2 /\ s_result = Some(TRUE)
    /\ n_foreign = 0 /\ n_lost = 0 /\ Len(r_log) = 2
    /\ r_pc = "returned" /\ r_result = [success |-> TRUE, data |-> Some(<<1, 2, 3>>)]

\* the bytes of a sequence of chunks, in order
RECURSIVE Flatten(_)
Flatten(chunks) ==
    IF chunks = <<>> THEN <<>> ELSE Head(chunks) \o Flatten(Tail(chunks))

\* C11: within one send_to call the datagrams sent so far, put end to end, are
\* the first data_sent bytes of data; for chunk_size >= 1 the k-th datagram is
\* the non-empty slice data[(k-1)*chunk_size : k*chunk_size]; and when send_to
\* has returned True the datagrams sent, put end to end, are data.
C11_SequentialChunks ==
    /\ Flatten(s_log) = SubSeq(s_data, 1, s_data_sent)
    /\ s_chunk_size >= 1
         => \A k \in 1..Len(s_log) :
               /\ s_log[k] # <<>>
               /\ s_log[k] = SubSeq(s_data, (k - 1) * s_chunk_size + 1,
                                    Min(k * s_chunk_size, Len(s_data)))
    /\ s_result = Some(TRUE) => Flatten(s_log) = s_data

C11_Witness ==
    /\ s_data = <<1, 2, 3, 4>> /\ s_chunk_size = 3 /\ s_result = Some(TRUE)
    /\ s_log = << <<1, 2, 3>>, <<4>> >>

\* the chunks send_to cuts data into when chunk_size >= 1
ChunkSequence(data, chunk_size) ==
    [k \in 1..((Len(data) + chunk_size - 1) \div chunk_size) |->
        SubSeq(data, (k - 1) * chunk_size + 1, Min(k * chunk_size, Len(data)))]

\* the datagrams of the sender that are in flight or were received, in order
SenderDatagrams(datagrams) == SelectSeq(datagrams, LAMBDA d : d.addr = SenderAddr)

\* C12: when sendto fails, send_to has returned False with part of data unsent;
\* the datagrams sent before the failure are the first ones of the chunk
\* sequence (put end to end, the first data_sent bytes of data), and from then
\* on send_to sends no datagram and changes nothing of what it sent.
C12_StopsAtFirstSendFailure ==
    /\ [](s_result = Some(FALSE)
            => /\ s_pc = "returned"
               /\ s_data_sent < Len(s_data)
               /\ Flatten(s_log) = SubSeq(s_data, 1, s_data_sent)
               /\ s_chunk_size >= 1
                    => s_log = SubSeq(ChunkSequence(s_data, s_chunk_size), 1, Len(s_log)))
    /\ [][s_result = Some(FALSE)
            => /\ s_log' = s_log /\ s_data_sent' = s_data_sent /\ s_result' = s_result
               /\ Len(SenderDatagrams(net')) <= Len(SenderDatagrams(net))]_vars

C12_Witness ==
    /\ s_data = <<1, 2, 3, 4>> /\ s_chunk_size = 2 /\ s_result = Some(FALSE)
    /\ s_pc = "returned" /\ s_log = << <<1, 2>> >> /\ s_data_sent = 2

\* C13: whenever recv(buf_size) returns success, the data it returns has exactly
\* buf_size bytes.
C13_ExactSizeOnSuccess ==
    (r_pc = "returned" /\ r_result.success) => Len(r_result.data[1]) = r_buf_size

\* the bytes recv took from the datagrams of log that came from address addr,
\* in arrival order
BytesFrom(log, addr, bufsize) ==
    LET same == SelectSeq(log, LAMBDA d : d.addr = addr)
    IN  Flatten([k \in 1..Len(same) |-> recvfrom(same[k], bufsize).packet])

\* C14: within one recv call the expected sender is the address of the first
\* datagram received, and under every interleaving of the two senders the
\* accumulated data, and the data returned on success, are the bytes taken
\* from the datagrams of that address, in arrival order, and nothing else.
C14_SenderIdentity ==
    /\ r_log = <<>> => r_addr = None /\ r_data = <<>>
    /\ r_log # <<>>
         => /\ r_addr = Some(r_log[1].addr)
            /\ r_data = BytesFrom(r_log, r_log[1].addr, r_buf_size)
            /\ (r_pc = "returned" /\ r_result.success) => r_result.data = Some(r_data)

C14_Witness ==
    /\ r_buf_size = 3 /\ Len(r_log) = 3
    /\ r_log[1] = [payload |-> <<1, 2>>, addr |-> SenderAddr]
    /\ r_log[2].addr = ForeignAddr
    /\ r_log[3] = [payload |-> <<3>>, addr |-> SenderAddr]
    /\ r_pc = "returned" /\ r_result = [success |-> TRUE, data |-> Some(<<1, 2, 3>>)]

\* recv(N) has received k >= 1 bytes from the sender and then N - k >= 1 bytes
\* from the other host, and nothing else
CrossTalk ==
    /\ Len(r_log) = 2
    /\ r_log[1].addr = SenderAddr /\ r_log[2].addr = ForeignAddr
    /\ Len(r_log[1].payload) >= 1 /\ Len(r_log[2].payload) >= 1
    /\ Len(r_log[1].payload) + Len(r_log[2].payload) = r_buf_size

\* C15 as stated: after k bytes from A and N - k bytes from B, recv(N) has its
\* N bytes and its loop is over: it needs no further datagram.
C15_CrossTalkCompletes == CrossTalk => ~(r_data_size < r_buf_size)

\* C15 amended: after k bytes from A and N - k bytes from B, recv(N) holds A's k
\* bytes only and has counted only them: B's datagram added nothing, the loop
\* is not over, and if recv has returned it returned (False, None).
C15_CrossTalkDiscarded ==
    CrossTalk
        => /\ r_data = r_log[1].payload
           /\ r_data_size = Len(r_log[1].payload)
           /\ r_data_size < r_buf_size
           /\ r_pc = "returned" => r_result = [success |-> FALSE, data |-> None]

C15_Witness ==
    /\ r_buf_size = 3 /\ r_pc = "loop"
    /\ r_log = << [payload |-> <<1, 2>>, addr |-> SenderAddr],
                  [payload |-> <<9>>, addr |-> ForeignAddr] >>
    /\ r_data = <<1, 2>> /\ r_data_size = 2

\* C16: when recvfrom fails (a timeout is such a failure) while recv is short of
\* buf_size, recv returns (False, None): it never returns success with fewer
\* than buf_size bytes, the failing step receives nothing, and after it has
\* returned recv receives nothing more.
C16_RecvFailure ==
    /\ []((r_pc = "returned" /\ r_data_size < r_buf_size)
            => r_result = [success |-> FALSE, data |-> None])
    /\ [](r_result.success => ~(r_data_size < r_buf_size))
    /\ [][(r_pc = "loop" /\ r_pc' = "returned" /\ r_data_size < r_buf_size)
            => r_log' = r_log /\ net' = net]_vars
    /\ [][r_pc = "returned" => UNCHANGED recvVars]_vars

C16_Witness ==
    /\ r_buf_size = 3 /\ r_data = <<1, 2>> /\ r_data_size = 2 /\ Len(r_log) = 1
    /\ r_pc = "returned" /\ r_result = [success |-> FALSE, data |-> None]

\* C17 as stated: a recv call on a client socket ends by returning an outcome
\* to its caller, not by raising.
C17_ClientRecvTypedOutcome == cl_recv.called => cl_recv.raised = ""

\* C17 amended: for every buf_size a recv call on a client socket ends by
\* raising NotImplementedError and returns nothing; the step takes no datagram
\* from the network, sends none, and leaves the server address and everything
\* else of the wrapper as it was.
C17_ClientRecvRaises ==
    /\ [](cl_recv.called
            => cl_recv.raised = "NotImplementedError" /\ cl_recv.result = None)
    /\ [][cl_recv' # cl_recv
            => UNCHANGED <<cl_pc, cl_server_address, cl_calls, cl_send_result, udpVars>>]_vars

C17_Witness ==
    /\ cl_recv = [called |-> TRUE, buf_size |-> 3, raised |-> "NotImplementedError",
                  result |-> None]
    /\ cl_send_result = Some(TRUE) /\ Len(net) = 1

\* C18: when send of a client socket has returned True, the send_to it ran
\* returned True: every chunk of data was sent.
C18_ClientSendTrueOnlyIfSent ==
    cl_send_result = Some(TRUE) => s_result = Some(TRUE) /\ Flatten(s_log) = s_data

\* every finished recv call on the stream returned success
AllSucceeded == \A i \in 1..Len(t_outcomes) : t_outcomes[i].success

\* the data of the finished recv calls, in order
Returned == [i \in 1..Len(t_outcomes) |-> t_outcomes[i].data[1]]

\* C19: a recv(buf_size) call never reads past the buf_size bytes that follow
\* the position of the stream at which it was called; when it returns success
\* it returns exactly those bytes, in order, whatever the lengths of the reads,
\* and the stream position is just behind them; so while all calls succeed
\* what they returned, put end to end, is the stream up to that position.
C19_StreamExactRead ==
    /\ t_pc \in {"loop", "returned", "raised"}
         => /\ t_pos = t_start + t_bytes_recd
            /\ t_bytes_recd <= Max(t_buf_size, 0)
            /\ t_message = SubSeq(t_stream, t_start + 1, t_pos)
    /\ (t_pc = "returned" /\ t_result[1].success)
         => /\ t_result[1].data = Some(SubSeq(t_stream, t_start + 1, t_start + t_buf_size))
            /\ t_pos = t_start + t_buf_size
    /\ AllSucceeded
         => Flatten(Returned)
              = SubSeq(t_stream, 1, IF t_pc = "loop" THEN t_start ELSE t_pos)

C19_Witness ==
    /\ t_stream = <<1, 2, 3, 4>> /\ t_pc = "returned" /\ t_reads = <<1, 1>>
    /\ t_outcomes = << TcpReturn(TRUE, Some(<<1, 2>>)), TcpReturn(TRUE, Some(<<3, 4>>)) >>
    /\ t_pos = 4

\* C20: a zero-byte read is the last read of its recv call, which has then
\* returned (False, None); and recv returns success only with exactly buf_size
\* bytes, never fewer.
C20_StreamShortRead ==
    /\ \A k \in 1..Len(t_reads) :
          t_reads[k] = 0
              => /\ k = Len(t_reads)
                 /\ t_pc = "returned"
                 /\ t_result = Some(TcpReturn(FALSE, None))
    /\ \A i \in 1..Len(t_outcomes) :
          t_outcomes[i].success => t_outcomes[i].data # None
    /\ (t_pc = "returned" /\ t_result[1].success)
          => Len(t_result[1].data[1]) = t_buf_size

C20_Witness ==
    /\ t_stream = <<1, 2>> /\ t_buf_size = 3 /\ t_reads = <<2, 0>>
    /\ t_message = <<1, 2>> /\ t_pc = "returned"
    /\ t_result = Some(TcpReturn(FALSE, None))

\* C21: no recv call on the stream wrapper ends by raising: a read that times
\* out or fails makes recv return a failure result.
C21_NoExceptionFromRecv == \A i \in 1..Len(t_outcomes) : ~t_outcomes[i].raised

\* C22: every recv call made after close released the handle returns the
\* failure outcome (False, None), and a send call made after it returns False
\* and moves no data.
C22_FailsAfterClose ==
    t_closed
        => /\ \A i \in (t_closed_at[1] + 1)..Len(t_outcomes) :
                 t_outcomes[i] = TcpReturn(FALSE, None)
           /\ (t_send # None /\ t_send[1].closed)
                 => ~t_send[1].result /\ t_send[1].moved = 0

\* C23 as stated: no socket is held by two wrappers, and no socket held by a
\* wrapper is held by code outside the wrappers.
C23_ExclusiveOwnership ==
    /\ \A w1, w2 \in 1..Len(f_wrappers) :
          f_wrappers[w1].handle = f_wrappers[w2].handle => w1 = w2
    /\ \A w \in 1..Len(f_wrappers) : f_wrappers[w].handle \notin f_outside

\* the wrappers that hold socket h
Holders(h) == {w \in 1..Len(f_wrappers) : f_wrappers[w].handle = h}

\* C23 amended: a socket that a factory opened itself is held by exactly one
\* wrapper and by no code outside it as long as get_socket has not been
\* called on that wrapper; a socket held by two wrappers is also held outside
\* them (it was given as instance), and a socket of the caller that a wrapper
\* holds stays held by the caller.
C23_OwnershipUnlessHandedOver ==
    /\ \A h \in 1..Len(f_handles) :
          (f_handles[h].origin = "create" /\ \A w \in Holders(h) : ~f_wrappers[w].exposed)
              => h \notin f_outside /\ Cardinality(Holders(h)) <= 1
    /\ \A h \in 1..Len(f_handles) :
          Cardinality(Holders(h)) >= 2 => h \in f_outside
    /\ \A w \in 1..Len(f_wrappers) :
          LET h == f_wrappers[w].handle
          IN  /\ h \in 1..Len(f_handles)
              /\ f_handles[h].origin = "caller" => h \in f_outside
    /\ \A i \in 1..Len(f_results) :
          (f_results[i].success /\ f_results[i].opened # None)
              => Holders(f_results[i].opened[1]) \cap 1..f_results[i].wrapper[1]
                   = {f_results[i].wrapper[1]}

C23_Witness ==
    /\ Len(f_wrappers) = 2
    /\ f_wrappers[1].handle = f_wrappers[2].handle
    /\ f_handles[f_wrappers[1].handle].origin = "caller"
    /\ f_wrappers[1].handle \in f_outside

\* C24: when a create call has returned failure, a socket it opened is closed.
C24_ReleasedOnFailure ==
    \A i \in 1..Len(f_results) :
        (~f_results[i].success /\ f_results[i].opened # None)
            => ~f_handles[f_results[i].opened[1]].open

\* C25 as stated: every create call returned (True, wrapper of a usable socket)
\* or (False, None), and returned (False, None) when bind failed and whenever
\* connection_timeout <= 0.
C25_NoPartialObject ==
    \A i \in 1..Len(f_results) :
        LET r == f_results[i]
        IN  /\ \/ r.success /\ r.wrapper # None /\ r.usable
               \/ ~r.success /\ r.wrapper = None
            /\ r.branch = "bind" => ~r.success
            /\ r.connection_timeout <= 0 => ~r.success

\* C25 amended: every create call returned (True, wrapper) or (False, None);
\* without instance it returned (False, None) when bind failed and whenever
\* connection_timeout <= 0, and a wrapper it returned holds the open socket
\* the call opened; with an instance it returned (True, wrapper of instance)
\* whatever connection_timeout is and whether or not instance is open.
C25_NoPartialObjectUnlessInstance ==
    \A i \in 1..Len(f_results) :
        LET r == f_results[i]
        IN  /\ r.success <=> r.wrapper # None
            /\ r.branch = "bind" => ~r.success
            /\ (r.connection_timeout <= 0 /\ r.instance = None) => ~r.success
            /\ (r.success /\ r.instance = None)
                  => r.usable /\ r.opened = Some(f_wrappers[r.wrapper[1]].handle)
            /\ r.instance # None
                  => r.success /\ f_wrappers[r.wrapper[1]].handle = r.instance[1]

C25_Witness ==
    \E i \in 1..Len(f_results) :
        /\ f_results[i].factory = "TcpClientSocket" /\ f_results[i].instance # None
        /\ f_results[i].connection_timeout = 0
        /\ f_results[i].success /\ ~f_results[i].usable

\* ceil(n / chunk_size) for chunk_size >= 1
CeilDiv(n, chunk_size) == (n + chunk_size - 1) \div chunk_size

\* C26: for chunk_size >= 1 a send_to call ends; when it has returned True it
\* has sent exactly ceil(n / chunk_size) datagrams, none empty, all but the
\* last of chunk_size bytes and the last of the n - (count - 1) * chunk_size
\* bytes that remain; for an empty payload that is no datagram at all.
C26_ChunkCount ==
    /\ []((s_chunk_size >= 1 /\ s_result = Some(TRUE))
            => /\ Len(s_log) = CeilDiv(Len(s_data), s_chunk_size)
               /\ \A k \in 1..Len(s_log) :
                     /\ Len(s_log[k]) >= 1
                     /\ Len(s_log[k]) <= s_chunk_size
                     /\ k < Len(s_log) => Len(s_log[k]) = s_chunk_size
                     /\ k = Len(s_log)
                          => Len(s_log[k]) = Len(s_data) - (k - 1) * s_chunk_size
               /\ s_data = <<>> => s_log = <<>>)
    /\ (s_chunk_size >= 1 /\ s_pc = "loop") ~> (s_pc = "returned")

C26_Witness ==
    /\ s_data = <<1, 2, 3, 4>> /\ s_chunk_size = 3 /\ s_result = Some(TRUE)
    /\ Len(s_log) = 2 /\ Len(s_log[1]) = 3 /\ Len(s_log[2]) = 1 /\ Len(net) = 2

\* C28: every iteration of the loop of send_to, for every chunk_size, adds to
\* the count of bytes sent.
C28_EveryIterationAdvances == [][s_log' # s_log => s_data_sent' > s_data_sent]_vars

\* the bytes of all the datagrams recv has received, whoever sent them
RECURSIVE TotalArrived(_)
TotalArrived(log) ==
    IF log = <<>> THEN 0 ELSE Len(Head(log).payload) + TotalArrived(Tail(log))

\* C27: while the datagrams that arrived during a recv(buf_size) call total
\* fewer than buf_size bytes, recv has not returned success: either it is
\* still in its loop, short of buf_size, or it has returned (False, None); and
\* the step by which it returns then receives no datagram.
C27_NoTruncationDetection ==
    /\ [](TotalArrived(r_log) < r_buf_size
            => /\ ~r_result.success
               /\ r_pc = "loop" => r_data_size < r_buf_size
               /\ r_pc = "returned" => r_result = [success |-> FALSE, data |-> None])
    /\ [][(TotalArrived(r_log) < r_buf_size /\ r_pc = "loop" /\ r_pc' = "returned")
            => r_result' = [success |-> FALSE, data |-> None] /\ r_log' = r_log]_vars

C27_Witness ==
    /\ s_data = <<1, 2, 3, 4>> /\ s_result = Some(TRUE) /\ net = <<>>
    /\ r_buf_size = 5 /\ r_data = <<1, 2, 3, 4>> /\ n_foreign = 0 /\ n_lost = 0
    /\ r_pc = "returned" /\ r_result = [success |-> FALSE, data |-> None]

\* C29: no thread, once a shutdown() made after its start has returned,
\* evaluates the loop condition on the stop event or calls periodic() again.
C29_NoActivityAfterShutdown ==
    \A i \in 1..Len(h_thr) : ~h_thr[i].late_check /\ ~h_thr[i].late_periodic

\* the threads with this target that are alive
Alive(target) == {i \in 1..Len(h_thr) : h_thr[i].target = target /\ IsAlive(i)}

\* C30: whenever no start or shutdown call is running, at most one position
\* thread and at most one camera thread are alive.
C30_AtMostOneThreadEach ==
    h_pc = "ready"
        => Cardinality(Alive("position")) <= 1 /\ Cardinality(Alive("camera")) <= 1

====
